---- MODULE Spec2Model ----
(***************************************************************************)
(* ReWin migration tool: the scanner GUI (src/gui/scanner_gui.py).         *)
(* The state is the ScannerGUI object (scan data, selection dictionaries,  *)
(* the two Treeview widgets, the search variables, the license toggles)    *)
(* and the directories on disk that load and export read and write.        *)
(* One action per GUI handler.                                             *)
(***************************************************************************)
EXTENDS Integers, Sequences, FiniteSets, TLC

\* ------------------------------------------------------------------ bounds

\* How many times "Load Scan Results" is used in one session.
MaxLoads == 2
\* How many handlers run in one session of the specification Spec.
MaxSteps == 5
\* The row identifiers sw_0..sw_MaxRow and store_0..store_MaxRow a click can
\* name in the specification SpecToggle.
MaxRow == 3
\* How many lines the processes of a Full Restore run print in total.
MaxOutput == 1
\* How many standalone installs are started in one session.
MaxInstalls == 2
\* How many lines the script of a standalone install prints at most.
MaxLines == 2
\* How many lines the pipe between a script and the window holds unread.
PipeCapacity == 1
\* How many links, bare URLs and headings a resolver report holds at most.
MaxPieces == 2
\* How many resolver searches are started in one session.
MaxSearches == 2
\* How many download batches are started in one session.
MaxDownloads == 1

\* ------------------------------------------------------- python-like values

\* Optional value: None is the empty tuple, a present value x is <<x>>.
None == <<>>
Some(x) == <<x>>

\* dict.get(key, default)
GetD(d, key, default) == IF key \in DOMAIN d THEN d[key] ELSE default

\* dict.get(key, '') on a string-valued field
Get(d, key) == GetD(d, key, "")

\* x or y or '' on strings: the first non-empty one
Or(x, y) == IF x # "" THEN x ELSE y

\* An insertion-ordered dict (Python 3.7+): its keys in insertion order and
\* the value of each key.
EmptyDict == [keys |-> <<>>, val |-> <<>>]

\* d[k] = v: an existing key keeps its position, a new key goes last.
DictSet(d, k, v) ==
    IF k \in DOMAIN d.val
    THEN [d EXCEPT !.val[k] = v]
    ELSE [keys |-> Append(d.keys, k), val |-> (k :> v) @@ d.val]

Range(s) == {s[i] : i \in 1..Len(s)}

\* str.lower() on a string held as a sequence of characters
LowerChar(c) == CASE c = "A" -> "a" [] c = "B" -> "b" [] c = "C" -> "c" [] OTHER -> c
Lower(s) == [i \in 1..Len(s) |-> LowerChar(s[i])]

\* t in s, for strings: t is a contiguous substring of s
Contains(t, s) ==
    \E i \in 0..(Len(s) - Len(t)) : SubSeq(s, i + 1, i + Len(t)) = t

\* f'sw_{i}' and f'store_{i}': the row identifier of index i
Iid(prefix, i) == <<prefix, i>>

\* int(item.split('_')[1])
IidIndex(item) == item[2]

\* ------------------------------------------------------- directories on disk

\* The contents of the scan directories the user can pick. A JSON file is
\* held as its parsed value.
Json(v) == [parse |-> "ok", json |-> v]

MappingsA ==
    << [SoftwareName |-> <<"A", "b">>, Version |-> "1", Publisher |-> <<"x">>,
        InstallMethod |-> "Winget", WingetId |-> "Git.Git", ChocolateyId |-> "git"],
       [SoftwareName |-> <<"b">>, Version |-> "2", Publisher |-> <<"x">>,
        InstallMethod |-> "Chocolatey", WingetId |-> "", ChocolateyId |-> "git"],
       [SoftwareName |-> <<"c">>, Version |-> "3", Publisher |-> <<"A">>,
        InstallMethod |-> "Winget", WingetId |-> "Git.Git"] >>

SoftwareA ==
    [InstalledSoftware |->
        << [Name |-> <<"A", "b">>, Version |-> "1", Publisher |-> <<"x">>] >>,
     StoreApps |->
        << [Name |-> <<"a">>, Version |-> "1", Publisher |-> <<"x">>,
            PackageFamilyName |-> "fam.a"],
           [Name |-> <<"B">>, Version |-> "1", Publisher |-> <<"x">>,
            PackageFamilyName |-> "fam.b"] >>]

LicensesA ==
    [Windows |-> [RecommendedKey |-> "WINKEY"],
     Office |-> << [Product |-> "Office", ProductKey |-> [len |-> 5, partial |-> FALSE, star |-> TRUE],
                    KeyType |-> "Retail", Note |-> ""] >>,
     WiFiProfiles |-> << [ProfileName |-> "home", Password |-> "pw"] >>]

SoftwareB ==
    [InstalledSoftware |->
        << [Name |-> <<"a">>, Version |-> "1", Publisher |-> <<"x">>],
           [Name |-> <<"b">>, Version |-> "2", Publisher |-> <<"x">>] >>,
     StoreApps |->
        << [Name |-> <<"b">>, Version |-> "1", Publisher |-> <<"x">>,
            PackageFamilyName |-> "fam.b"] >>]

\* A file json.load raises on.
Unparsable == [parse |-> "JSONDecodeError"]

ScanDirs == {"Scan_A", "Scan_B", "Scan_E"}
\* A scan directory whose second inventory file is damaged.
BrokenScanDirs == {"Scan_X"}
OutputDirs == {"out"}

\* Path.home() / 'Downloads'
DownloadDirs == {"Downloads"}

\* The migration packages the restore window is given.
PackageA ==
    [export_date |-> "",
     software |-> << [SoftwareName |-> <<"g">>, Version |-> "1", Publisher |-> <<"x">>,
                      InstallMethod |-> "Winget", WingetId |-> "Git.Git"],
                     [SoftwareName |-> <<"v">>, Version |-> "2", Publisher |-> <<"x">>,
                      InstallMethod |-> "Chocolatey", ChocolateyId |-> "vlc"] >>,
     store_apps |-> << [Name |-> <<"a">>, Version |-> "1", Publisher |-> <<"x">>,
                        PackageFamilyName |-> "fam.a"] >>,
     configs |-> [env_vars |-> FALSE, vscode |-> TRUE],
     licenses |-> [include_windows |-> TRUE,
                   windows_key |-> [RecommendedKey |-> "WINKEY"]]]

PackageC ==
    [export_date |-> "",
     software |-> << [SoftwareName |-> <<"v">>, Version |-> "2", Publisher |-> <<"x">>,
                      InstallMethod |-> "Chocolatey", ChocolateyId |-> "vlc"] >>,
     store_apps |-> <<>>,
     configs |-> [env_vars |-> TRUE],
     licenses |-> [include_windows |-> FALSE]]

\* Pkg_A holds both install scripts, Pkg_C the Chocolatey script only, the
\* package file of Pkg_X is damaged, the one of Pkg_L is a JSON list and
\* Pkg_E is an empty directory.
PackageDirs == {"Pkg_A", "Pkg_C", "Pkg_X", "Pkg_L", "Pkg_E"}

Dirs == ScanDirs \cup BrokenScanDirs \cup OutputDirs \cup PackageDirs \cup DownloadDirs

InitialFiles(dir) ==
    CASE dir = "Scan_A" ->
            ("software_inventory.json" :> Json(SoftwareA))
            @@ ("package_mappings.json" :> Json(MappingsA))
            @@ ("license_keys.json" :> Json(LicensesA))
            @@ ("AppConfigs" :> [entries |-> {"vscode"}])
      [] dir = "Scan_B" ->
            ("software_inventory.json" :> Json(SoftwareB))
            @@ ("AppConfigs" :> [entries |-> {"git"}])
      [] dir = "Scan_X" ->
            ("software_inventory.json" :> Json(SoftwareB))
            @@ ("package_mappings.json" :> Unparsable)
      [] dir = "Pkg_A" ->
            ("migration_package.json" :> Json(PackageA))
            @@ ("install_winget.ps1" :> [packages |-> <<"Git.Git">>, mtime |-> 0])
            @@ ("install_chocolatey.ps1" :> [packages |-> <<"vlc">>, mtime |-> 0])
      [] dir = "Pkg_C" ->
            ("migration_package.json" :> Json(PackageC))
            @@ ("install_chocolatey.ps1" :> [packages |-> <<"vlc">>, mtime |-> 0])
      [] dir = "Pkg_X" -> ("migration_package.json" :> Unparsable)
      [] dir = "Pkg_L" -> ("migration_package.json" :> Json([pylist |-> <<"x">>]))
      [] OTHER -> <<>>

\* What the user can type in a search box.
SearchTerms == { <<>>, <<"A">> }

\* ------------------------------------------------------------ ttk.Treeview

\* A Treeview: every item that exists (attached or detached) with its text and
\* values, and the attached children of the root in display order.
EmptyTree == [items |-> <<>>, children |-> <<>>]

\* tree.insert('', 'end', iid=iid, text=text, values=values); the caller has
\* checked that iid does not exist (Tk raises "Item ... already exists").
TreeInsert(tree, iid, text, values) ==
    [items |-> (iid :> [text |-> text, values |-> values]) @@ tree.items,
     children |-> Append(tree.children, iid)]

\* for item in tree.get_children(): tree.delete(item): the attached items
\* are destroyed, the detached ones stay in the widget.
TreeDeleteChildren(tree) ==
    [items |-> [i \in (DOMAIN tree.items) \ Range(tree.children) |-> tree.items[i]],
     children |-> <<>>]

\* tree.detach(item)
TreeDetach(tree, item) ==
    [tree EXCEPT !.children = SelectSeq(tree.children, LAMBDA c : c # item)]

\* tree.reattach(item, '', 'end')
TreeReattach(tree, item) ==
    [tree EXCEPT !.children =
        Append(SelectSeq(tree.children, LAMBDA c : c # item), item)]

\* tree.item(item, text=text)
TreeSetText(tree, item, text) == [tree EXCEPT !.items[item].text = text]

Checked == "[x]"
Unchecked == "[ ]"
CheckText(b) == IF b THEN Checked ELSE Unchecked

\* --------------------------------------------------------------- the state

VARIABLES
    scan_data,           \* None, or Some(dict) of the loaded inventory files
    current_scan_path,   \* None, or Some(directory)
    all_sw_iids,         \* the software rows inserted by the last populate
    all_store_iids,      \* the store-app rows inserted by the last populate
    selections,          \* category -> ordered dict iid -> bool
    software_tree,
    store_apps_tree,
    wifi_tree,           \* the rows of the WiFi profile list
    software_search,
    store_apps_search,
    windows_key_var,
    office_text,
    include_windows_key,
    include_office_keys,
    include_wifi,
    config_options,      \* config key -> bool
    status_var,
    summary_text,
    messagebox,          \* the dialog the last handler showed
    fs,                  \* directory -> file name -> content
    lastOp,              \* history: the handler that ran last
    afterSelectAll,      \* history: the category whose _select_all ran right
                         \* before the last handler, "" when none did
    loads,               \* how many scan loads were started
    exports,             \* how many exports wrote files (the clock of mtime)
    steps                \* how many handlers ran (counted by Spec only)

\* The state of the restore window (src/gui/restore_gui.py), a program of its
\* own that shares the disk with the scanner.
VARIABLES
    package_data,        \* None, or Some(parsed migration_package.json)
    package_path,        \* None, or Some(directory)
    package_path_var,
    all_software_data,   \* software and store apps of the package, combined
    restore_software_tree, \* RestoreGUI.software_tree: the rows displayed
    software_summary,
    windows_key_label,
    config_vars,         \* config key -> bool
    restore_status_var,  \* RestoreGUI.status_var
    restore_messagebox,  \* the dialog the last restore handler showed
    notebook_tab,        \* the tab the notebook shows
    log_text,            \* the lines of the log view
    progress_label,
    full_pc,             \* where the thread full() of _full_restore is
    restore_pc,          \* where the thread restore() of _restore_configs is
    temp_script,         \* restore()'s local temp_script: None or Some(directory)
    process,             \* the processes of the current run, in launch order,
                         \* each with (history) the package directory its
                         \* script or path was taken from
    after_queue,         \* callbacks given to root.after(0, ...), not yet run
    log_frames,          \* the calls of _log the main loop is inside of, at
                         \* their root.update(): the messages, innermost last
    package_loads,       \* how many package loads were made
    runs                 \* how many Full Restore runs were started (0 or 1)

\* The standalone installs of the restore window.
VARIABLES
    install,             \* backend -> the thread install() of its button and
                         \* the script process: pc, the lines the script
                         \* prints in all, has written to the pipe, and the
                         \* lines the thread has read
    installs             \* how many standalone installs were started

installVars == << install, installs >>

\* The Manual Downloads tab of the restore window.
VARIABLES
    download_selection_tree, \* the rows: check mark and URL
    installer_results,   \* what was inserted in the results text
    installer_search_info,
    download_info_label,
    download_folder,
    search_thread,       \* the thread search(): pc, software, the
                         \* directory of its local manual_downloads and
                         \* (history) the report its resolver wrote, and
                         \* of how many pieces
    download_thread,     \* the thread download(): pc, selected_urls, the
                         \* index of the loop, download_folder and
                         \* (history) the length of fetched at its start
    found_urls,          \* history: found_urls of the results update of the
                         \* last search, <<>> before it ran
    fetched,             \* history: the calls of urlretrieve, URL and outcome
    searches,            \* how many searches were started
    downloads            \* how many download batches were started

searchVars == << download_selection_tree, installer_results, installer_search_info,
                 download_info_label, download_folder, search_thread,
                 download_thread,
                 found_urls, fetched, searches, downloads >>

toolVars == << installVars, searchVars >>

restoreVars == << package_data, package_path, package_path_var, all_software_data,
                  restore_software_tree, software_summary, windows_key_label,
                  config_vars, restore_status_var, restore_messagebox,
                  notebook_tab, log_text, progress_label, full_pc, restore_pc,
                  temp_script, process, after_queue, log_frames, package_loads,
                  runs, toolVars >>

scannerVars == << scan_data, current_scan_path, all_sw_iids, all_store_iids,
                  selections, software_tree, store_apps_tree, wifi_tree,
                  software_search, store_apps_search, windows_key_var,
                  office_text, include_windows_key, include_office_keys,
                  include_wifi, config_options, status_var, summary_text,
                  messagebox, lastOp, afterSelectAll, loads, exports, steps >>

vars == << scan_data, current_scan_path, all_sw_iids, all_store_iids, selections,
           software_tree, store_apps_tree, wifi_tree, software_search,
           store_apps_search, windows_key_var, office_text, include_windows_key,
           include_office_keys, include_wifi, config_options, status_var,
           summary_text, messagebox, fs, lastOp, afterSelectAll, loads, exports,
           steps, restoreVars >>

Categories == {"software", "store_apps", "configs", "licenses", "startup"}

ConfigKeys == {"env_vars", "scheduled_tasks", "services", "file_assoc", "network",
               "explorer", "vscode", "git_config", "ssh_config", "terminal",
               "browser_bookmarks", "powershell"}

\* What the history variable lastOp records of a handler run: the handler,
\* the category it worked on and, for a click, the row identify_row gave
\* (for a scan load, the directory that was picked).
Op(name, category, item) == [op |-> name, category |-> category, item |-> item]

\* The keys of RestoreGUI.config_vars.
RestoreConfigKeys ==
    {"env_vars", "scheduled_tasks", "network", "file_assoc", "explorer", "vscode",
     "git_config", "ssh_config", "terminal", "browser_bookmarks", "powershell",
     "wifi"}

Backends == {"Winget", "Chocolatey"}

\* No search thread and no download thread was started.
NoSearch == [pc |-> "idle", software |-> <<>>, manual_downloads |-> "", report |-> <<>>,
             pieces |-> 0]
NoDownload == [pc |-> "idle", urls |-> <<>>, i |-> 0, folder |-> "", start |-> 0]

\* No install thread was started.
NoInstall == [pc |-> "idle", total |-> 0, written |-> 0, read |-> 0]

\* RestoreGUI after construction, when _auto_detect_package finds no package
\* in the places it looks at.
RestoreInit ==
    /\ package_data = None
    /\ package_path = None
    /\ package_path_var = <<"No package loaded">>
    /\ all_software_data = <<>>
    /\ restore_software_tree = <<>>
    /\ software_summary = [text |-> "No package loaded"]
    /\ windows_key_label = <<"Not found in package">>
    /\ config_vars = [k \in RestoreConfigKeys |-> TRUE]
    /\ restore_status_var = <<"Ready">>
    /\ restore_messagebox = "none"
    /\ notebook_tab = 0
    /\ log_text = <<>>
    /\ progress_label = "Ready"
    /\ full_pc = [at |-> "idle", phase |-> ""]
    /\ restore_pc = "idle"
    /\ temp_script = None
    /\ process = <<>>
    /\ after_queue = <<>>
    /\ log_frames = <<>>
    /\ package_loads = 0
    /\ runs = 0
    /\ install = [b \in Backends |-> NoInstall]
    /\ installs = 0
    /\ download_selection_tree = <<>>
    /\ installer_results = <<>>
    /\ installer_search_info = [text |-> "Ready to search"]
    /\ download_info_label = [text |-> "No search results yet."]
    /\ download_folder = "Downloads"
    /\ search_thread = NoSearch
    /\ download_thread = NoDownload
    /\ found_urls = <<>>
    /\ fetched = <<>>
    /\ searches = 0
    /\ downloads = 0

Init ==
    /\ RestoreInit
    /\ scan_data = None
    /\ current_scan_path = None
    /\ all_sw_iids = <<>>
    /\ all_store_iids = <<>>
    /\ selections = [c \in Categories |-> EmptyDict]
    /\ software_tree = EmptyTree
    /\ store_apps_tree = EmptyTree
    /\ wifi_tree = <<>>
    /\ software_search = <<>>
    /\ store_apps_search = <<>>
    /\ windows_key_var = "Not scanned"
    /\ office_text = <<>>
    /\ include_windows_key = TRUE
    /\ include_office_keys = TRUE
    /\ include_wifi = TRUE
    /\ config_options = [k \in ConfigKeys |-> TRUE]
    /\ status_var = <<"Ready">>
    /\ summary_text = [text |-> "Click 'Update Summary' to see scan results"]
    /\ messagebox = "none"
    /\ fs = [d \in Dirs |-> InitialFiles(d)]
    /\ lastOp = Op("__init__", "", <<>>)
    /\ afterSelectAll = ""
    /\ loads = 0
    /\ exports = 0
    /\ steps = 0

\* ------------------------------------------------------------- _populate_ui

\* The software rows _populate_ui shows: from the package mappings when the
\* scan has them, otherwise from the raw inventory, otherwise none.
SoftwareRows(d) ==
    IF "mappings" \in DOMAIN d
    THEN [i \in 1..Len(d["mappings"]) |->
            LET item == d["mappings"][i] IN
            [name |-> GetD(item, "SoftwareName", <<>>),
             version |-> Get(item, "Version"),
             publisher |-> GetD(item, "Publisher", <<>>),
             method |-> GetD(item, "InstallMethod", "Manual"),
             pkg_id |-> Or(Get(item, "WingetId"), Get(item, "ChocolateyId"))]]
    ELSE IF "software" \in DOMAIN d
    THEN LET sw == GetD(d["software"], "InstalledSoftware", <<>>) IN
         [i \in 1..Len(sw) |->
            [name |-> GetD(sw[i], "Name", <<>>),
             version |-> Get(sw[i], "Version"),
             publisher |-> GetD(sw[i], "Publisher", <<>>),
             method |-> "Unknown",
             pkg_id |-> ""]]
    ELSE <<>>

StoreRows(d) ==
    IF "software" \in DOMAIN d
    THEN LET apps == GetD(d["software"], "StoreApps", <<>>) IN
         [i \in 1..Len(apps) |->
            [name |-> GetD(apps[i], "Name", <<>>),
             version |-> Get(apps[i], "Version"),
             publisher |-> GetD(apps[i], "Publisher", <<>>)]]
    ELSE <<>>

\* The insert loop of one tree, rows i..Len(rows): each row is inserted under
\* the identifier prefix_(i-1), entered in the selection dict with the
\* category's default and appended to the list of all identifiers. Tk raises
\* when the identifier still exists in the widget (a detached row), which
\* ends the loop with the rows before it inserted.
RECURSIVE InsertRows(_, _, _, _, _, _, _)
InsertRows(tree, sel, iids, rows, i, prefix, selected) ==
    IF i > Len(rows)
    THEN [tree |-> tree, sel |-> sel, iids |-> iids, raised |-> FALSE]
    ELSE LET iid == Iid(prefix, i - 1) IN
         IF iid \in DOMAIN tree.items
         THEN [tree |-> tree, sel |-> sel, iids |-> iids, raised |-> TRUE]
         ELSE InsertRows(TreeInsert(tree, iid, CheckText(selected), rows[i]),
                         DictSet(sel, iid, selected),
                         Append(iids, iid), rows, i + 1, prefix, selected)

\* 'PARTIAL' in key or '*' in key or len(key) < 20
MaskedKeyLen == 20
IsMasked(productkey) ==
    productkey.partial \/ productkey.star \/ productkey.len < MaskedKeyLen

\* The office text box after the license section of _populate_ui.
OfficeText(office_keys) ==
    IF office_keys = <<>>
    THEN <<"No Office keys found">>
    ELSE [i \in 1..Len(office_keys) |-> office_keys[i].Product]
         \o (IF \E i \in 1..Len(office_keys) : IsMasked(office_keys[i].ProductKey)
             THEN <<"WARNING: Office keys are masked/partial">>
             ELSE <<>>)

\* _populate_ui on the widget state ui (a record of the fields it touches)
\* with the loaded dict d (scan_data is not None here). The result carries
\* raised = TRUE when a Tk call raised; the fields then hold what was done
\* before the exception.
PopulateUI(ui, d) ==
    IF DOMAIN d = {}
    THEN [ui EXCEPT !.raised = FALSE]
    ELSE
    LET sw == InsertRows(TreeDeleteChildren(ui.software_tree),
                         ui.selections["software"], <<>>,
                         SoftwareRows(d), 1, "sw", TRUE)
        cleared == [ui EXCEPT !.software_tree = sw.tree,
                              !.store_apps_tree = TreeDeleteChildren(ui.store_apps_tree),
                              !.wifi_tree = <<>>,
                              !.all_sw_iids = sw.iids,
                              !.all_store_iids = <<>>,
                              !.selections["software"] = sw.sel,
                              !.raised = sw.raised]
        st == InsertRows(cleared.store_apps_tree, ui.selections["store_apps"], <<>>,
                         StoreRows(d), 1, "store", FALSE)
        stored == [cleared EXCEPT !.store_apps_tree = st.tree,
                                  !.all_store_iids = st.iids,
                                  !.selections["store_apps"] = st.sel,
                                  !.raised = st.raised]
    IN  IF sw.raised THEN cleared
        ELSE IF st.raised THEN stored
        ELSE IF "licenses" \notin DOMAIN d THEN stored
        ELSE LET licenses == d["licenses"]
                 win_key == GetD(licenses, "Windows", <<>>)
                 office_keys == GetD(licenses, "Office", <<>>)
                 wifi == GetD(licenses, "WiFiProfiles", <<>>)
             IN [stored EXCEPT
                   !.windows_key_var =
                       IF DOMAIN win_key # {}
                       THEN GetD(win_key, "RecommendedKey", "Not found")
                       ELSE @,
                   !.office_text = OfficeText(office_keys),
                   !.include_office_keys =
                       IF \E i \in 1..Len(office_keys) : IsMasked(office_keys[i].ProductKey)
                       THEN FALSE ELSE @,
                   !.wifi_tree = [i \in 1..Len(wifi) |->
                                    [profile |-> Get(wifi[i], "ProfileName"),
                                     password |-> Get(wifi[i], "Password")]]]

\* ----------------------------------------------------- _load_scan_from_path

\* The inventory files in the order _load_scan_from_path reads them, each
\* with the scan_data key it is stored under.
InventoryFiles ==
    << [file |-> "software_inventory.json", key |-> "software"],
       [file |-> "package_mappings.json", key |-> "mappings"],
       [file |-> "license_keys.json", key |-> "licenses"],
       [file |-> "config_backup.json", key |-> "config"] >>

\* Reading the files i..4 of directory content files into dict d: a file that
\* does not exist is skipped, a file json.load cannot parse raises and leaves
\* d with the files read before it.
RECURSIVE ReadInventory(_, _, _)
ReadInventory(files, d, i) ==
    IF i > Len(InventoryFiles)
    THEN [d |-> d, raised |-> FALSE]
    ELSE LET f == InventoryFiles[i] IN
         IF f.file \notin DOMAIN files
         THEN ReadInventory(files, d, i + 1)
         ELSE IF files[f.file].parse # "ok"
         THEN [d |-> d, raised |-> TRUE]
         ELSE ReadInventory(files, (f.key :> files[f.file].json) @@ d, i + 1)

\* The widget fields _populate_ui works on.
UI ==
    [software_tree |-> software_tree, store_apps_tree |-> store_apps_tree,
     wifi_tree |-> wifi_tree, all_sw_iids |-> all_sw_iids,
     all_store_iids |-> all_store_iids, selections |-> selections,
     windows_key_var |-> windows_key_var, office_text |-> office_text,
     include_office_keys |-> include_office_keys, raised |-> FALSE]

SetUI(ui) ==
    /\ software_tree' = ui.software_tree
    /\ store_apps_tree' = ui.store_apps_tree
    /\ wifi_tree' = ui.wifi_tree
    /\ all_sw_iids' = ui.all_sw_iids
    /\ all_store_iids' = ui.all_store_iids
    /\ selections' = ui.selections
    /\ windows_key_var' = ui.windows_key_var
    /\ office_text' = ui.office_text
    /\ include_office_keys' = ui.include_office_keys

\* A scanner handler ran: the history is updated, and the restore window,
\* another program, is not touched.
StepOn(name, category, item) ==
    /\ afterSelectAll' = IF lastOp.op = "_select_all" THEN lastOp.category ELSE ""
    /\ lastOp' = Op(name, category, item)
    /\ UNCHANGED restoreVars

Step(name, category) == StepOn(name, category, <<>>)

\* "Load Scan Results" with the directory the user picked.
_load_scan_from_path(path) ==
    /\ loads < MaxLoads
    /\ loads' = loads + 1
    /\ LET read == ReadInventory(fs[path], <<>>, 1)
           ui == IF read.raised THEN UI ELSE PopulateUI(UI, read.d)
           failed == read.raised \/ ui.raised
       IN /\ scan_data' = Some(read.d)
          /\ current_scan_path' = Some(path)
          /\ SetUI(ui)
          /\ messagebox' = IF failed THEN "showerror" ELSE "none"
          /\ status_var' = IF failed THEN <<"Failed to load scan results">>
                           ELSE <<"Loaded scan results from: ", path>>
    /\ StepOn("_load_scan_from_path", "", << path >>)
    /\ UNCHANGED << software_search, store_apps_search, include_windows_key,
                    include_wifi, config_options, summary_text, fs, exports >>

\* ------------------------------------------------- selection handlers

\* getattr(self, f'{category}_tree', None): only these two categories have a
\* tree widget.
TreeCategories == {"software", "store_apps"}

TreeOf(category) ==
    IF category = "software" THEN software_tree ELSE store_apps_tree

SetTree(category, tree) ==
    IF category = "software"
    THEN software_tree' = tree /\ UNCHANGED store_apps_tree
    ELSE store_apps_tree' = tree /\ UNCHANGED software_tree

\* tree.identify_row(event.y): the attached row under the pointer, or ''
\* (here <<>>) when the click is below the last row.
IdentifyRow(tree) == Range(tree.children) \cup {<<>>}

\* The rest of the handlers leave these alone.
SelectionFrame ==
    UNCHANGED << scan_data, current_scan_path, all_sw_iids, all_store_iids,
                 wifi_tree, software_search, store_apps_search, windows_key_var,
                 office_text, include_windows_key, include_office_keys,
                 include_wifi, config_options, status_var, summary_text, fs,
                 loads, exports >>

\* Mutant of ToggledSelection: the test "if item in sel" is missing and the
\* value is read with a default.
ToggledSelectionUnguarded(sel, item) ==
    DictSet(sel, item, ~GetD(sel.val, item, FALSE))

\* if item in sel: sel[item] = not sel[item]
ToggledSelection(sel, item) ==
    IF item \in DOMAIN sel.val
    THEN [sel EXCEPT !.val[item] = ~sel.val[item]]
    ELSE sel

\* A click on a tree of the given category that identify_row resolves to item.
_toggle_selection(category, item) ==
    /\ IF category \notin TreeCategories \/ item = <<>>
       THEN UNCHANGED << selections, software_tree, store_apps_tree >>
       ELSE LET sel == ToggledSelection(selections[category], item) IN
            /\ selections' = [selections EXCEPT ![category] = sel]
            /\ IF item \in DOMAIN selections[category].val
               THEN SetTree(category,
                            TreeSetText(TreeOf(category), item, CheckText(sel.val[item])))
               ELSE UNCHANGED << software_tree, store_apps_tree >>
    /\ messagebox' = "none"
    /\ StepOn("_toggle_selection", category, item)
    /\ SelectionFrame

\* for item in items: selections[item] = value(item); tree.item(item, text=...)
\* for the rows i.. of items; value maps each row to the value it gets.
RECURSIVE SetEach(_, _, _, _, _)
SetEach(sel, tree, items, i, value) ==
    IF i > Len(items)
    THEN [sel |-> sel, tree |-> tree]
    ELSE SetEach(DictSet(sel, items[i], value[items[i]]),
                 TreeSetText(tree, items[i], CheckText(value[items[i]])),
                 items, i + 1, value)

\* Mutant of SelectAllItems: the loop runs over every row of the list, the
\* detached ones included, instead of the attached rows.
SelectAllItemsEvery(category) ==
    IF category = "software" THEN all_sw_iids ELSE all_store_iids

\* The rows _select_all works on: tree.get_children().
SelectAllItems(category) == TreeOf(category).children

_select_all(category) ==
    /\ category \in TreeCategories
    /\ LET r == SetEach(selections[category], TreeOf(category),
                        SelectAllItems(category), 1,
                        [item \in Range(SelectAllItems(category)) |-> TRUE])
       IN /\ selections' = [selections EXCEPT ![category] = r.sel]
          /\ SetTree(category, r.tree)
    /\ messagebox' = "none"
    /\ Step("_select_all", category)
    /\ SelectionFrame

\* Mutant of DeselectedValue: the loop stops at the initialisation of a
\* missing entry (True) and never stores False.
DeselectedValueInit(item) == TRUE

\* The value _deselect_all leaves in a row's selection entry.
DeselectedValue(item) == FALSE

_deselect_all(category) ==
    /\ category \in TreeCategories
    /\ LET r == SetEach(selections[category], TreeOf(category),
                        TreeOf(category).children, 1,
                        [item \in Range(TreeOf(category).children) |->
                            DeselectedValue(item)])
       IN /\ selections' = [selections EXCEPT ![category] = r.sel]
          /\ SetTree(category, r.tree)
    /\ messagebox' = "none"
    /\ Step("_deselect_all", category)
    /\ SelectionFrame

_select_winget ==
    /\ LET r == SetEach(selections["software"], software_tree,
                        software_tree.children, 1,
                        [item \in Range(software_tree.children) |->
                            software_tree.items[item].values.method = "Winget"])
       IN /\ selections' = [selections EXCEPT !["software"] = r.sel]
          /\ software_tree' = r.tree
    /\ UNCHANGED store_apps_tree
    /\ messagebox' = "none"
    /\ Step("_select_winget", "software")
    /\ SelectionFrame

\* ------------------------------------------------------------ search filters

\* search_term in name or search_term in publisher, all lower-cased
Matches(search, values) ==
    LET search_term == Lower(search) IN
    \/ Contains(search_term, Lower(values.name))
    \/ Contains(search_term, Lower(values.publisher))

\* tree.reattach(item, '', 'end') as the filter uses it to show a row again.
FilterShow(tree, item) == TreeReattach(tree, item)

\* The loop of _filter_software / _filter_store_apps over the rows i.. of
\* all_iids; visible_items is the set of attached rows taken before the loop.
RECURSIVE FilterRows(_, _, _, _, _)
FilterRows(tree, all_iids, i, search, visible_items) ==
    IF i > Len(all_iids)
    THEN tree
    ELSE LET item == all_iids[i]
             next == IF Matches(search, tree.items[item].values)
                     THEN IF item \notin visible_items
                          THEN FilterShow(tree, item) ELSE tree
                     ELSE IF item \in visible_items
                          THEN TreeDetach(tree, item) ELSE tree
         IN FilterRows(next, all_iids, i + 1, search, visible_items)

\* Mutant of FilterSelections: the filter starts the selection dicts afresh.
FilterSelectionsReset == [c \in Categories |-> EmptyDict]

\* The selection dicts after a filter ran: the filters do not touch them.
FilterSelections == selections

\* The user edits the software search box: the trace callback runs the filter.
_filter_software(search) ==
    /\ software_search' = search
    /\ software_tree' = FilterRows(software_tree, all_sw_iids, 1, search,
                                   Range(software_tree.children))
    /\ selections' = FilterSelections
    /\ messagebox' = "none"
    /\ Step("_filter_software", "software")
    /\ UNCHANGED << scan_data, current_scan_path, all_sw_iids, all_store_iids,
                    store_apps_tree, wifi_tree, store_apps_search,
                    windows_key_var, office_text, include_windows_key,
                    include_office_keys, include_wifi, config_options, status_var,
                    summary_text, fs, loads, exports >>

_filter_store_apps(search) ==
    /\ store_apps_search' = search
    /\ store_apps_tree' = FilterRows(store_apps_tree, all_store_iids, 1, search,
                                     Range(store_apps_tree.children))
    /\ selections' = FilterSelections
    /\ messagebox' = "none"
    /\ Step("_filter_store_apps", "store_apps")
    /\ UNCHANGED << scan_data, current_scan_path, all_sw_iids, all_store_iids,
                    software_tree, wifi_tree, software_search,
                    windows_key_var, office_text, include_windows_key,
                    include_office_keys, include_wifi, config_options, status_var,
                    summary_text, fs, loads, exports >>

\* ---------------------------------------------------------- _update_summary

\* sum(1 for v in d.values() if v)
CountTrue(f) == Cardinality({k \in DOMAIN f : f[k]})

\* The number of selected software rows whose Install Method column is one
\* of methods; a selected identifier with no row in the tree raises inside the
\* try block and is not counted.
MethodCount(methods) ==
    Cardinality({item \in DOMAIN selections["software"].val :
                    /\ selections["software"].val[item]
                    /\ item \in DOMAIN software_tree.items
                    /\ software_tree.items[item].values.method \in methods})

_update_summary ==
    /\ LET d == IF scan_data = None THEN <<>> ELSE scan_data[1]
           total_software ==
               IF "mappings" \in DOMAIN d THEN Len(d["mappings"])
               ELSE IF "software" \in DOMAIN d
               THEN Len(GetD(d["software"], "InstalledSoftware", <<>>))
               ELSE 0
           total_store ==
               IF "software" \in DOMAIN d
               THEN Len(GetD(d["software"], "StoreApps", <<>>))
               ELSE 0
           rows == {item \in DOMAIN selections["software"].val :
                       /\ selections["software"].val[item]
                       /\ item \in DOMAIN software_tree.items}
       IN summary_text' =
            [total_software |-> total_software,
             total_store |-> total_store,
             selected_software |-> CountTrue(selections["software"].val),
             selected_store |-> CountTrue(selections["store_apps"].val),
             winget_count |-> MethodCount({"Winget"}),
             choco_count |-> MethodCount({"Chocolatey"}),
             manual_count |-> Cardinality(rows) - MethodCount({"Winget", "Chocolatey"}),
             selected_configs |-> CountTrue(config_options),
             windows_key |-> include_windows_key,
             office_keys |-> include_office_keys,
             wifi |-> include_wifi]
    /\ messagebox' = "none"
    /\ Step("_update_summary", "")
    /\ UNCHANGED << scan_data, current_scan_path, all_sw_iids, all_store_iids,
                    selections, software_tree, store_apps_tree, wifi_tree,
                    software_search, store_apps_search, windows_key_var,
                    office_text, include_windows_key, include_office_keys,
                    include_wifi, config_options, status_var, fs, loads, exports >>

\* --------------------------------------------------------- _export_selection

\* Mutant of SelectedEntries: the test "if selected" is missing.
SelectedEntriesAll(sel, list) ==
    LET picked == SelectSeq(sel.keys, LAMBDA item : IidIndex(item) < Len(list))
    IN [j \in 1..Len(picked) |-> list[IidIndex(picked[j]) + 1]]

\* The entries of list picked by the selection dict sel, as the export loops
\* build them: the dict's items in insertion order, the selected ones whose
\* index is inside the list.
SelectedEntries(sel, list) ==
    LET picked == SelectSeq(sel.keys,
                    LAMBDA item : sel.val[item] /\ IidIndex(item) < Len(list))
    IN [j \in 1..Len(picked) |-> list[IidIndex(picked[j]) + 1]]

\* package['software']
PackageSoftware(d, sel) ==
    IF "mappings" \in DOMAIN d
    THEN SelectedEntries(sel, d["mappings"])
    ELSE IF "software" \in DOMAIN d /\ "InstalledSoftware" \in DOMAIN d["software"]
    THEN LET picked == SelectedEntries(sel, d["software"]["InstalledSoftware"]) IN
         [j \in 1..Len(picked) |->
            [SoftwareName |-> GetD(picked[j], "Name", <<>>),
             Version |-> Get(picked[j], "Version"),
             Publisher |-> GetD(picked[j], "Publisher", <<>>),
             InstallMethod |-> "Manual"]]
    ELSE <<>>

\* package['store_apps']
PackageStoreApps(d, sel) ==
    IF "software" \in DOMAIN d /\ "StoreApps" \in DOMAIN d["software"]
    THEN LET picked == SelectedEntries(sel, d["software"]["StoreApps"]) IN
         [j \in 1..Len(picked) |->
            [Name |-> GetD(picked[j], "Name", <<>>),
             Version |-> Get(picked[j], "Version"),
             Publisher |-> GetD(picked[j], "Publisher", <<>>),
             PackageFamilyName |-> Get(picked[j], "PackageFamilyName")]]
    ELSE <<>>

\* Mutant of PackageLicenses: the WiFi profiles follow the toggle of the
\* Windows key.
PackageLicensesShared(d) ==
    LET has == "licenses" \in DOMAIN d IN
    [include_windows |-> include_windows_key,
     include_office |-> include_office_keys,
     include_wifi |-> include_wifi]
    @@ (IF include_windows_key /\ has
        THEN "windows_key" :> GetD(d["licenses"], "Windows", <<>>) ELSE <<>>)
    @@ (IF include_office_keys /\ has
        THEN "office_keys" :> GetD(d["licenses"], "Office", <<>>) ELSE <<>>)
    @@ (IF include_windows_key /\ has
        THEN "wifi_profiles" :> GetD(d["licenses"], "WiFiProfiles", <<>>) ELSE <<>>)

\* package['licenses']
PackageLicenses(d) ==
    LET has == "licenses" \in DOMAIN d IN
    [include_windows |-> include_windows_key,
     include_office |-> include_office_keys,
     include_wifi |-> include_wifi]
    @@ (IF include_windows_key /\ has
        THEN "windows_key" :> GetD(d["licenses"], "Windows", <<>>) ELSE <<>>)
    @@ (IF include_office_keys /\ has
        THEN "office_keys" :> GetD(d["licenses"], "Office", <<>>) ELSE <<>>)
    @@ (IF include_wifi /\ has
        THEN "wifi_profiles" :> GetD(d["licenses"], "WiFiProfiles", <<>>) ELSE <<>>)

\* Mutant of export_date: the package is stamped with the time of the export.
export_date_now == exports + 1

\* 'export_date': ''
export_date == ""

\* The package dict _export_selection builds from the loaded dict d.
Package(d) ==
    [export_date |-> export_date,
     drives |-> [primary |-> "C:", secondary |-> "D:", data |-> "D:"],
     software |-> PackageSoftware(d, selections["software"]),
     store_apps |-> PackageStoreApps(d, selections["store_apps"]),
     configs |-> config_options,
     licenses |-> PackageLicenses(d)]

\* The keys of the package dict, of package['configs'] and of
\* package['licenses'] in the order the handler inserts them, which is the
\* order json.dump writes them in.
PackageKeys == << "export_date", "drives", "software", "store_apps", "configs", "licenses" >>
ConfigKeyOrder ==
    << "env_vars", "scheduled_tasks", "services", "file_assoc", "network",
       "explorer", "vscode", "git_config", "ssh_config", "terminal",
       "browser_bookmarks", "powershell" >>
LicenseKeyOrder ==
    << "include_windows", "include_office", "include_wifi", "windows_key",
       "office_keys", "wifi_profiles" >>

\* The items of dict d, a pair per key of order that d holds, in that order.
Items(d, order) ==
    LET keys == SelectSeq(order, LAMBDA k : k \in DOMAIN d) IN
    [j \in 1..Len(keys) |-> << keys[j], d[keys[j]] >>]

\* json.dump(package, f, indent=2, default=str): the text of the file, as the
\* sequence of its members in the order they are written.
Dump(package) ==
    [j \in 1..Len(PackageKeys) |->
        LET k == PackageKeys[j] IN
        << k, CASE k = "configs" -> Items(package[k], ConfigKeyOrder)
                [] k = "licenses" -> Items(package[k], LicenseKeyOrder)
                [] OTHER -> package[k] >>]

\* [s['WingetId'] for s in package['software'] if s.get('WingetId')]
WingetPkgs(software) ==
    LET with == SelectSeq(software, LAMBDA s : Get(s, "WingetId") # "") IN
    [j \in 1..Len(with) |-> with[j]["WingetId"]]

\* Mutant of ChocoPkgs: the test "and not s.get('WingetId')" is missing.
ChocoPkgsAll(software) ==
    LET with == SelectSeq(software, LAMBDA s : Get(s, "ChocolateyId") # "")
    IN [j \in 1..Len(with) |-> with[j]["ChocolateyId"]]

\* [s['ChocolateyId'] for s in package['software']
\*  if s.get('ChocolateyId') and not s.get('WingetId')]
ChocoPkgs(software) ==
    LET with == SelectSeq(software,
                  LAMBDA s : Get(s, "ChocolateyId") # "" /\ Get(s, "WingetId") = "")
    IN [j \in 1..Len(with) |-> with[j]["ChocolateyId"]]

\* A script file: the $packages list it installs, and when it was written.
Script(pkgs, now) == [packages |-> pkgs, mtime |-> now]

\* The directory content files after _generate_install_scripts wrote the
\* scripts of package at time now: a script is written only for a non-empty
\* list, and nothing else in the directory is touched.
_generate_install_scripts(package, files, now) ==
    LET winget_pkgs == WingetPkgs(package.software)
        choco_pkgs == ChocoPkgs(package.software)
    IN (IF winget_pkgs # <<>>
        THEN "install_winget.ps1" :> Script(winget_pkgs, now) ELSE <<>>)
       @@ (IF choco_pkgs # <<>>
           THEN "install_chocolatey.ps1" :> Script(choco_pkgs, now) ELSE <<>>)
       @@ files

files_to_copy ==
    {"config_backup.json", "license_keys.json", "software_inventory.json",
     "package_mappings.json", "scan_summary.json", "scan_log.txt"}

\* Mutant of CopySourceData: the AppConfigs folder of the destination is
\* not removed before the copy.
CopySourceDataMerged(src, dest) ==
    (IF "AppConfigs" \in (DOMAIN src) \cap (DOMAIN dest)
     THEN "AppConfigs" :> [entries |-> src["AppConfigs"].entries
                                        \cup dest["AppConfigs"].entries]
     ELSE <<>>)
    @@ [f \in (DOMAIN src) \cap (files_to_copy \cup {"AppConfigs"}) |-> src[f]] @@ dest

\* The destination directory after the copy of the scan's data files and of
\* its AppConfigs folder (removed first when the destination has one).
CopySourceData(src, dest) ==
    [f \in (DOMAIN src) \cap (files_to_copy \cup {"AppConfigs"}) |-> src[f]] @@ dest

\* The directory content files after the package file was written at time now.
SavePackage(package, files, now) ==
    ("migration_package.json" :>
        [json |-> package, text |-> Dump(package), mtime |-> now]) @@ files

\* The writes of an export, in the order the handler makes them.
ExportWrites == << "migration_package.json", "install_winget.ps1",
                   "install_chocolatey.ps1", "copy" >>

\* "Export Package" when the write named at raises OSError (the file or the
\* directory is not writable): what was written before it stays, the error is
\* shown and the status line is left alone.
_export_selection_raising(output_dir, at) ==
    /\ scan_data # None
    /\ LET now == exports + 1
           package == Package(scan_data[1])
           saved == SavePackage(package, fs[output_dir], now)
           winget == IF WingetPkgs(package.software) # <<>>
                     THEN ("install_winget.ps1" :>
                             Script(WingetPkgs(package.software), now)) @@ saved
                     ELSE saved
           scripted == _generate_install_scripts(package, saved, now)
       IN /\ CASE at = "migration_package.json" -> UNCHANGED fs
               [] at = "install_winget.ps1" ->
                     /\ WingetPkgs(package.software) # <<>>
                     /\ fs' = [fs EXCEPT ![output_dir] = saved]
               [] at = "install_chocolatey.ps1" ->
                     /\ ChocoPkgs(package.software) # <<>>
                     /\ fs' = [fs EXCEPT ![output_dir] = winget]
               [] at = "copy" ->
                     /\ current_scan_path # None
                     /\ current_scan_path[1] # output_dir
                     /\ (DOMAIN fs[current_scan_path[1]])
                            \cap (files_to_copy \cup {"AppConfigs"}) # {}
                     /\ fs' = [fs EXCEPT ![output_dir] = scripted]
          /\ exports' = now
    /\ messagebox' = "showerror"
    /\ Step("_export_selection", "")
    /\ UNCHANGED << scan_data, current_scan_path, all_sw_iids, all_store_iids,
                    selections, software_tree, store_apps_tree, wifi_tree,
                    software_search, store_apps_search, windows_key_var,
                    office_text, include_windows_key, include_office_keys,
                    include_wifi, config_options, status_var, summary_text, loads >>

\* "Export Package" with the output directory the user picked.
_export_selection(output_dir) ==
    /\ IF scan_data = None
       THEN \* 'mappings' in None raises TypeError: reported, nothing written
            /\ messagebox' = "showerror"
            /\ UNCHANGED << fs, status_var, exports >>
       ELSE LET now == exports + 1
                package == Package(scan_data[1])
                saved == SavePackage(package, fs[output_dir], now)
                scripted == _generate_install_scripts(package, saved, now)
                copied == IF current_scan_path # None /\ current_scan_path[1] # output_dir
                          THEN CopySourceData(fs[current_scan_path[1]], scripted)
                          ELSE scripted
            IN /\ fs' = [fs EXCEPT ![output_dir] = copied]
               /\ exports' = now
               /\ messagebox' = "showinfo"
               /\ status_var' = <<"Package exported to: ", output_dir>>
    /\ Step("_export_selection", "")
    /\ UNCHANGED << scan_data, current_scan_path, all_sw_iids, all_store_iids,
                    selections, software_tree, store_apps_tree, wifi_tree,
                    software_search, store_apps_search, windows_key_var,
                    office_text, include_windows_key, include_office_keys,
                    include_wifi, config_options, summary_text, loads >>

\* The check boxes a session clicks: "Include in migration" of the Windows
\* key, of the Office keys and of the WiFi profiles, and a config category.
Checkbuttons == {"include_windows_key", "include_office_keys", "include_wifi", "env_vars"}

\* A click on the check box of a BooleanVar: the variable is inverted.
Checkbutton(variable) ==
    /\ include_windows_key' = (include_windows_key # (variable = "include_windows_key"))
    /\ include_office_keys' = (include_office_keys # (variable = "include_office_keys"))
    /\ include_wifi' = (include_wifi # (variable = "include_wifi"))
    /\ config_options' = [k \in DOMAIN config_options |->
                             config_options[k] # (variable = k)]
    /\ Step("Checkbutton", "")
    /\ UNCHANGED << scan_data, current_scan_path, all_sw_iids, all_store_iids,
                    selections, software_tree, store_apps_tree, wifi_tree,
                    software_search, store_apps_search, windows_key_var,
                    office_text, status_var, summary_text, messagebox, fs, loads,
                    exports >>

\* ------------------------------------------------------- the specifications

\* One more handler run of a session of at most MaxSteps runs.
Tick == steps < MaxSteps /\ steps' = steps + 1

\* A session of the scanner window of at most MaxSteps handler runs.
Next ==
    \/ \E path \in ScanDirs : Tick /\ _load_scan_from_path(path)
    \/ \E category \in TreeCategories :
          \E item \in IdentifyRow(TreeOf(category)) :
             Tick /\ _toggle_selection(category, item)
    \/ \E category \in TreeCategories : Tick /\ _select_all(category)
    \/ \E category \in TreeCategories : Tick /\ _deselect_all(category)
    \/ Tick /\ _select_winget
    \/ \E search \in SearchTerms : Tick /\ _filter_software(search)
    \/ \E search \in SearchTerms : Tick /\ _filter_store_apps(search)
    \/ Tick /\ _update_summary
    \/ \E output_dir \in OutputDirs : Tick /\ _export_selection(output_dir)

Spec == Init /\ [][Next]_vars

\* The selection engine alone, in sessions of any length: export and summary
\* read the selection state and the trees and write neither.
NextSelection ==
    \/ \E path \in ScanDirs : _load_scan_from_path(path) /\ UNCHANGED steps
    \/ \E category \in TreeCategories :
          \E item \in IdentifyRow(TreeOf(category)) :
             _toggle_selection(category, item) /\ UNCHANGED steps
    \/ \E category \in TreeCategories : _select_all(category) /\ UNCHANGED steps
    \/ \E category \in TreeCategories : _deselect_all(category) /\ UNCHANGED steps
    \/ _select_winget /\ UNCHANGED steps
    \/ \E search \in SearchTerms : _filter_software(search) /\ UNCHANGED steps
    \/ \E search \in SearchTerms : _filter_store_apps(search) /\ UNCHANGED steps

SpecSelection == Init /\ [][NextSelection]_vars

\* A session of at most MaxSteps handler runs on the license and config
\* tabs: scan loads, clicks on the check boxes, exports.
NextBundles ==
    \/ \E path \in ScanDirs : Tick /\ _load_scan_from_path(path)
    \/ \E variable \in Checkbuttons : Tick /\ Checkbutton(variable)
    \/ \E output_dir \in OutputDirs : Tick /\ _export_selection(output_dir)

SpecBundles == Init /\ [][NextBundles]_vars

\* A session of at most MaxSteps scan loads and exports, the exports to the
\* output directory or to a scan directory.
NextCopy ==
    \/ \E path \in ScanDirs : Tick /\ _load_scan_from_path(path)
    \/ \E output_dir \in OutputDirs \cup ScanDirs : Tick /\ _export_selection(output_dir)

SpecCopy == Init /\ [][NextCopy]_vars

\* The contract of the click handler, toggle(category, id): the selection
\* engine with _toggle_selection run for any category and any identifier,
\* displayed or not, known to the selection state or not.
AnyIids == {Iid(prefix, i) : prefix \in {"sw", "store"}, i \in 0..MaxRow}

NextToggle ==
    \/ \E path \in ScanDirs : _load_scan_from_path(path) /\ UNCHANGED steps
    \/ \E category \in Categories :
          \E item \in AnyIids \cup {<<>>} :
             _toggle_selection(category, item) /\ UNCHANGED steps

SpecToggle == Init /\ [][NextToggle]_vars

\* A session of at most MaxSteps handler runs in which the user also picks a
\* scan directory with a damaged inventory file.
NextLoad ==
    \/ \E path \in ScanDirs \cup BrokenScanDirs : Tick /\ _load_scan_from_path(path)
    \/ \E category \in TreeCategories :
          \E item \in IdentifyRow(TreeOf(category)) :
             Tick /\ _toggle_selection(category, item)
    \/ \E search \in SearchTerms : Tick /\ _filter_software(search)
    \/ \E output_dir \in OutputDirs : Tick /\ _export_selection(output_dir)
    \/ \E output_dir \in OutputDirs :
          \E at \in Range(ExportWrites) :
             Tick /\ _export_selection_raising(output_dir, at)

SpecLoad == Init /\ [][NextLoad]_vars

\* ------------------------------------------- restore: _load_package_from_path

\* A JSON document that is a list, not an object.
PyList(v) == [pylist |-> v]
IsDict(v) == "pylist" \notin DOMAIN v

\* _refresh_software_display: the rows of the software list for the combined
\* data, the search term and the "hide manual" toggle.
RefreshSoftwareDisplay(data, search_term, show_non_manual_only) ==
    LET shown == SelectSeq(data, LAMBDA item :
                    /\ (search_term = <<>>
                          \/ Contains(Lower(search_term),
                                      Lower(GetD(item, "SoftwareName", <<>>))))
                    /\ ~(show_non_manual_only
                          /\ GetD(item, "InstallMethod", "Manual") = "Manual"))
    IN [j \in 1..Len(shown) |->
          [display_name |-> GetD(shown[j], "SoftwareName", <<>>),
           version |-> Get(shown[j], "Version"),
           method |-> GetD(shown[j], "InstallMethod", "Manual"),
           pkg_id |-> Or(Or(Get(shown[j], "WingetId"), Get(shown[j], "ChocolateyId")),
                         Get(shown[j], "PackageFamilyName"))]]

\* self.all_software_data as _populate_software_list builds it.
CombinedSoftware(data) ==
    LET software == GetD(data, "software", <<>>)
        store_apps == GetD(data, "store_apps", <<>>)
    IN software \o
       [j \in 1..Len(store_apps) |->
          [SoftwareName |-> GetD(store_apps[j], "Name", <<>>),
           Version |-> Get(store_apps[j], "Version"),
           InstallMethod |-> "Store",
           PackageFamilyName |-> Get(store_apps[j], "PackageFamilyName"),
           Publisher |-> GetD(store_apps[j], "Publisher", <<>>)]]

\* The text _populate_software_list puts in the summary line.
SoftwareSummary(data) ==
    LET count(method) ==
          Cardinality({j \in 1..Len(data) : Get(data[j], "InstallMethod") = method})
    IN [total |-> Len(data), winget |-> count("Winget"),
        chocolatey |-> count("Chocolatey"), store |-> count("Store"),
        manual |-> count("Manual")]

\* _update_license_info
WindowsKeyLabel(data, old) ==
    LET windows_key == GetD(GetD(data, "licenses", <<>>), "windows_key", <<>>) IN
    IF DOMAIN windows_key = {} THEN old
    ELSE <<"Windows Key: ", GetD(windows_key, "RecommendedKey", "Not found")>>

\* _update_config_options
ConfigVars(data, old) ==
    LET configs == GetD(data, "configs", <<>>) IN
    [k \in DOMAIN old |-> IF k \in DOMAIN configs THEN configs[k] ELSE old[k]]

\* What the restore handlers leave alone of the run in progress.
RunFrame ==
    UNCHANGED << notebook_tab, log_text, progress_label, full_pc, restore_pc,
                 temp_script, process, after_queue, log_frames, runs, toolVars >>

\* Mutant of ReadPackage: a damaged package file is read as an empty package.
ReadPackageLenient(files) ==
    IF "migration_package.json" \notin DOMAIN files
    THEN [error |-> "not found"]
    ELSE IF files["migration_package.json"].parse # "ok"
    THEN [error |-> "", json |-> [software |-> <<>>]]
    ELSE [error |-> "", json |-> files["migration_package.json"].json]

\* The test package_file.exists() and json.load(f) on the files of the
\* directory: the error reported, or the parsed document.
ReadPackage(files) ==
    IF "migration_package.json" \notin DOMAIN files
    THEN [error |-> "not found"]
    ELSE IF files["migration_package.json"].parse # "ok"
    THEN [error |-> files["migration_package.json"].parse]
    ELSE [error |-> "", json |-> files["migration_package.json"].json]

\* "Load Package" with the directory the user picked.
_load_package_from_path(path) ==
    /\ package_loads < MaxLoads
    /\ package_loads' = package_loads + 1
    /\ LET read == ReadPackage(fs[path]) IN
       IF read.error # ""
       THEN \* the file is missing, or json.load raised before the assignment
            /\ restore_messagebox' = "showerror"
            /\ UNCHANGED << package_data, package_path, package_path_var,
                            all_software_data, restore_software_tree,
                            software_summary, windows_key_label, config_vars,
                            restore_status_var >>
       ELSE LET data == read.json IN
            /\ package_data' = Some(data)
            /\ package_path' = Some(path)
            /\ package_path_var' = <<"Loaded: ", path>>
            /\ IF ~IsDict(data)
               THEN \* list.get raises AttributeError in _populate_software_list
                    /\ restore_messagebox' = "showerror"
                    /\ UNCHANGED << all_software_data, restore_software_tree,
                                    software_summary, windows_key_label,
                                    config_vars, restore_status_var >>
               ELSE /\ all_software_data' = CombinedSoftware(data)
                    /\ restore_software_tree' =
                          RefreshSoftwareDisplay(CombinedSoftware(data), <<>>, FALSE)
                    /\ software_summary' = SoftwareSummary(CombinedSoftware(data))
                    /\ windows_key_label' = WindowsKeyLabel(data, windows_key_label)
                    /\ config_vars' = ConfigVars(data, config_vars)
                    /\ restore_status_var' = <<"Package loaded from ", path>>
                    /\ restore_messagebox' = "none"
    /\ RunFrame
    /\ UNCHANGED << fs, scannerVars >>

\* ------------------------------------------------------- restore: the log

\* A line of the log: who wrote it (the window itself, or the process of a
\* phase whose output it is), its text and, for output, its number.
Entry(from, text, n) == [from |-> from, text |-> text, n |-> n]
Gui(text) == Entry("gui", text, 0)
Bar == Gui("==================================================")

\* _write_debug: the messages are appended to the file filename of the
\* package directory loaded at that moment (the time stamp is left out).
DebugWrittenTo(files, filename, entries) ==
    IF package_path = None THEN files
    ELSE LET dir == package_path[1]
             old == IF filename \in DOMAIN files[dir]
                    THEN files[dir][filename].lines ELSE <<>>
         IN [files EXCEPT ![dir] = (filename :> [lines |-> old \o entries]) @@ files[dir]]

DebugWritten(files, entries) == DebugWrittenTo(files, "restore_debug.txt", entries)

\* self._log(message, "restore_debug.txt") for each message of entries
LogAll(entries) ==
    /\ log_text' = log_text \o entries
    /\ fs' = DebugWritten(fs, entries)

\* self._log(message, "restore_installer_lookup_debug.txt") for each message
\* of entries, after the files of the disk became files.
LogLookup(files, entries) ==
    /\ log_text' = log_text \o entries
    /\ fs' = DebugWrittenTo(files, "restore_installer_lookup_debug.txt", entries)

\* "except Exception as e: self.root.after(0, lambda: self._log(f'Error: ...'))"
ErrorCallback == [call |-> "_log_error", file |-> "restore_debug.txt"]

\* self.root.after(0, lambda: self._log(message, "restore_debug.txt"))
LogCallback(entry) == [call |-> "_log", entry |-> entry, file |-> "restore_debug.txt"]

\* The loaded package and the scanner window.
LoadedFrame ==
    UNCHANGED << package_data, package_path, package_path_var, all_software_data,
                 restore_software_tree, software_summary, windows_key_label,
                 config_vars, restore_status_var, package_loads, scannerVars >>

\* What the steps of a run leave alone of the loaded package.
PackageFrame == LoadedFrame /\ UNCHANGED toolVars

\* ------------------------------------------------------ restore: processes

\* subprocess.Popen: a new process of the phase, alive, that printed nothing.
Popen(phase, dir) ==
    [phase |-> phase, dir |-> dir, state |-> "alive", code |-> 0, printed |-> 0]

Alive == {i \in 1..Len(process) : process[i].state = "alive"}

\* The process of the phase the current run launched (0 when it did not).
ProcessOf(phase) ==
    IF \E i \in 1..Len(process) : process[i].phase = phase
    THEN CHOOSE i \in 1..Len(process) : process[i].phase = phase
    ELSE 0

ExitCodes == {0, 1}

\* The environment: a process ends with an exit code.
process_exit(i, code) ==
    /\ i \in Alive
    /\ process' = [process EXCEPT ![i].state = "exited", ![i].code = code]
    /\ PackageFrame
    /\ UNCHANGED << restore_messagebox, notebook_tab, log_text, progress_label,
                    full_pc, restore_pc, temp_script, after_queue, log_frames,
                    runs, fs >>

\* How many lines the first n processes of the run have printed.
RECURSIVE Printed(_)
Printed(n) == IF n = 0 THEN 0 ELSE process[n].printed + Printed(n - 1)

\* "for line in process.stdout: self.root.after(0, lambda l=line: self._log(...))":
\* the process of the phase prints a line, the thread reads it and hands the
\* logging of it to the main loop.
ReadLine(phase) ==
    LET i == ProcessOf(phase) IN
    /\ i \in Alive
    /\ Printed(Len(process)) < MaxOutput
    /\ process' = [process EXCEPT ![i].printed = @ + 1]
    /\ after_queue' = Append(after_queue,
          LogCallback(Entry(phase, "output", process[i].printed + 1)))

\* Mutant of Exited: process.wait() is missing, the thread goes on as soon as
\* the process was started.
ExitedNoWait(phase) == ProcessOf(phase) # 0

\* process.wait() returns: the process of the phase has exited.
Exited(phase) ==
    /\ ProcessOf(phase) # 0
    /\ process[ProcessOf(phase)].state = "exited"

\* ---------------------------------------------------- restore: _full_restore

PC(at, phase) == [at |-> at, phase |-> phase]

\* No run is in progress: no thread is at work and no callback is pending.
NoRunActive ==
    /\ full_pc.at \in {"idle", "done", "crashed"}
    /\ restore_pc \in {"idle", "done", "failed"}
    /\ full_pc.at = "done" => restore_pc # "idle"
    /\ after_queue = <<>>
    /\ log_frames = <<>>

\* "Full Restore", answered confirm in the dialog. A session holds one run:
\* the button is used until a run was started.
_full_restore(confirm) ==
    /\ NoRunActive
    /\ runs = 0
    /\ IF package_path = None
       THEN /\ restore_messagebox' = "showerror"
            /\ UNCHANGED << notebook_tab, full_pc, restore_pc, process, runs >>
       ELSE /\ restore_messagebox' = "askyesno"
            /\ IF confirm
               THEN /\ notebook_tab' = 3
                    /\ full_pc' = PC("phase1", "")
                    /\ restore_pc' = "idle"
                    /\ process' = <<>>
                    /\ runs' = runs + 1
               ELSE UNCHANGED << notebook_tab, full_pc, restore_pc, process, runs >>
    /\ PackageFrame
    /\ UNCHANGED << log_text, progress_label, temp_script, after_queue,
                    log_frames, fs >>

\* What the steps of the thread full() leave alone.
FullFrame ==
    /\ PackageFrame
    /\ UNCHANGED << restore_messagebox, notebook_tab, progress_label, restore_pc,
                    temp_script, log_frames, runs >>

\* full(): the heading of phase 1.
full_phase1 ==
    /\ full_pc.at = "phase1"
    /\ LogAll(<< Bar, Gui("PHASE 1: Installing Software"), Bar >>)
    /\ full_pc' = PC("check", "Winget")
    /\ FullFrame
    /\ UNCHANGED << process, after_queue >>

\* The install script of a backend phase.
script_path(phase) ==
    IF phase = "Winget" THEN "install_winget.ps1" ELSE "install_chocolatey.ps1"

\* What full() does after a backend phase.
NextPC(phase) == IF phase = "Winget" THEN PC("check", "Chocolatey") ELSE PC("phase2", "")

\* Mutant of AfterExit: a non-zero exit code ends the run.
AfterExitAbort(code, next) == IF code # 0 THEN PC("crashed", "") ELSE next

\* Where full() goes when process.wait() returned code: the code is not
\* looked at.
AfterExit(code, next) == next

\* Mutant of MissingScript: a missing script ends the run.
MissingScriptAbort(phase) == PC("crashed", phase)

\* Where full() goes when the script of a phase does not exist.
MissingScript(phase) == NextPC(phase)

\* full(): "if script_path.exists():" of a backend phase, the log line and
\* Popen, which starts the process (launched) or raises; nothing in full()
\* catches, so the thread ends there.
full_launch(launched) ==
    /\ full_pc.at = "check"
    /\ LET phase == full_pc.phase IN
       IF script_path(phase) \in DOMAIN fs[package_path[1]]
       THEN /\ LogAll(<< Gui(IF phase = "Winget" THEN "\nInstalling via Winget..."
                                                  ELSE "\nInstalling via Chocolatey...") >>)
            /\ IF launched
               THEN /\ process' = Append(process, Popen(phase, package_path[1]))
                    /\ full_pc' = PC("read", phase)
               ELSE /\ full_pc' = PC("crashed", phase)
                    /\ UNCHANGED process
       ELSE /\ launched
            /\ full_pc' = MissingScript(phase)
            /\ UNCHANGED << log_text, fs, process >>
    /\ FullFrame
    /\ UNCHANGED after_queue

\* full(): a line of the backend process is read.
full_read ==
    /\ full_pc.at = "read"
    /\ ReadLine(full_pc.phase)
    /\ FullFrame
    /\ UNCHANGED << full_pc, log_text, fs >>

\* full(): process.wait() of the backend process returns.
full_wait ==
    /\ full_pc.at = "read"
    /\ Exited(full_pc.phase)
    /\ full_pc' = AfterExit(process[ProcessOf(full_pc.phase)].code, NextPC(full_pc.phase))
    /\ FullFrame
    /\ UNCHANGED << process, after_queue, log_text, fs >>

\* full(): the heading of phase 2 and root.after(0, self._restore_configs).
full_phase2 ==
    /\ full_pc.at = "phase2"
    /\ LogAll(<< Gui("\n=================================================="),
                 Gui("PHASE 2: Restoring Configuration"),
                 Gui("==================================================\n") >>)
    /\ after_queue' = Append(after_queue, [call |-> "_restore_configs"])
    /\ full_pc' = PC("done", "")
    /\ FullFrame
    /\ UNCHANGED process

\* -------------------------------------------------- restore: _restore_configs

\* What the steps of the thread restore() leave alone.
ConfigFrame ==
    /\ PackageFrame
    /\ UNCHANGED << restore_messagebox, notebook_tab, full_pc, log_frames, runs >>

\* restore(): the first log line and the progress label.
restore_start ==
    /\ restore_pc = "start"
    /\ LogAll(<< Gui("Starting configuration restore...") >>)
    /\ progress_label' = "Restoring configurations..."
    /\ restore_pc' = "script"
    /\ ConfigFrame
    /\ UNCHANGED << temp_script, process, after_queue >>

\* restore(): temp_restore.ps1 is written to the package directory (written,
\* or open raises) and Popen starts the process (launched) or raises; the
\* except branch hands the error line to the main loop.
restore_script(written, launched) ==
    /\ restore_pc = "script"
    /\ LET dir == package_path[1] IN
       IF ~written
       THEN /\ launched
            /\ after_queue' = Append(after_queue, ErrorCallback)
            /\ restore_pc' = "failed"
            /\ UNCHANGED << fs, temp_script, process >>
       ELSE /\ fs' = [fs EXCEPT ![dir] =
                        ("temp_restore.ps1" :> [script |-> "Start-FullRestore",
                                                package |-> dir]) @@ fs[dir]]
            /\ temp_script' = Some(dir)
            /\ IF launched
               THEN /\ process' = Append(process, Popen("config", dir))
                    /\ restore_pc' = "read"
                    /\ UNCHANGED after_queue
               ELSE /\ after_queue' = Append(after_queue, ErrorCallback)
                    /\ restore_pc' = "failed"
                    /\ UNCHANGED process
    /\ ConfigFrame
    /\ UNCHANGED << log_text, progress_label >>

\* restore(): a line of the config-restore process is read.
restore_read ==
    /\ restore_pc = "read"
    /\ ReadLine("config")
    /\ ConfigFrame
    /\ UNCHANGED << restore_pc, temp_script, log_text, progress_label, fs >>

\* restore(): process.wait() returns, the temporary script is removed and the
\* completion is handed to the main loop.
restore_wait ==
    /\ restore_pc = "read"
    /\ Exited("config")
    /\ LET dir == temp_script[1] IN
       fs' = [fs EXCEPT ![dir] =
                [f \in (DOMAIN fs[dir]) \ {"temp_restore.ps1"} |-> fs[dir][f]]]
    /\ temp_script' = None
    /\ after_queue' = after_queue \o
          << LogCallback(Gui("Configuration restore complete!")),
             [call |-> "progress_label", text |-> "Configuration restore complete"] >>
    /\ restore_pc' = "done"
    /\ ConfigFrame
    /\ UNCHANGED << process, log_text, progress_label >>

\* ------------------------------------- restore: the standalone installs

\* "Install via Winget" / "Install via Chocolatey": the thread install() of
\* the backend is started. A session holds one thread per button at a time.
_install(backend) ==
    /\ install[backend].pc \in {"idle", "done", "missing", "failed"}
    /\ installs < MaxInstalls
    /\ IF package_path = None
       THEN /\ restore_messagebox' = "showerror"
            /\ UNCHANGED << notebook_tab, install, installs >>
       ELSE /\ notebook_tab' = 3
            /\ install' = [install EXCEPT ![backend] = [NoInstall EXCEPT !.pc = "start"]]
            /\ installs' = installs + 1
            /\ UNCHANGED restore_messagebox
    /\ LoadedFrame
    /\ UNCHANGED << log_text, progress_label, full_pc, restore_pc, temp_script,
                    process, after_queue, log_frames, runs, fs, searchVars >>

_install_winget == _install("Winget")

_install_chocolatey == _install("Chocolatey")

\* What the steps of install() and of its script leave alone.
InstallFrame ==
    /\ LoadedFrame
    /\ UNCHANGED << restore_messagebox, notebook_tab, full_pc, restore_pc,
                    temp_script, process, log_frames, runs, installs, searchVars >>

\* install(): "if not script_path.exists()" with its log line, or the
\* starting line, the progress label and Popen, which starts the script
\* (launched; it will print total lines) or raises.
install_start(backend, launched, total) ==
    /\ install[backend].pc = "start"
    /\ IF script_path(backend) \notin DOMAIN fs[package_path[1]]
       THEN /\ launched /\ total = 0
            /\ LogAll(<< Gui(IF backend = "Winget"
                             THEN "Winget install script not found"
                             ELSE "Chocolatey install script not found") >>)
            /\ install' = [install EXCEPT ![backend].pc = "missing"]
            /\ UNCHANGED << progress_label, after_queue >>
       ELSE /\ LogAll(<< Gui(IF backend = "Winget"
                             THEN "Starting Winget installation..."
                             ELSE "Starting Chocolatey installation...") >>)
            /\ progress_label' = IF backend = "Winget" THEN "Installing via Winget..."
                                                       ELSE "Installing via Chocolatey..."
            /\ IF launched
               THEN /\ install' = [install EXCEPT ![backend].pc = "running",
                                                  ![backend].total = total]
                    /\ UNCHANGED after_queue
               ELSE /\ total = 0
                    /\ install' = [install EXCEPT ![backend].pc = "failed"]
                    /\ after_queue' = Append(after_queue, ErrorCallback)
    /\ InstallFrame

\* The environment: the script writes its next line to the pipe when the
\* pipe has room for it (the write blocks otherwise).
script_write(backend) ==
    /\ install[backend].pc = "running"
    /\ install[backend].written < install[backend].total
    /\ install[backend].written - install[backend].read < PipeCapacity
    /\ install' = [install EXCEPT ![backend].written = @ + 1]
    /\ InstallFrame
    /\ UNCHANGED << log_text, progress_label, after_queue, fs >>

\* The script has written all its lines and exited.
ScriptExited(backend) == install[backend].written = install[backend].total

\* _install_winget has "for line in process.stdout", _install_chocolatey
\* goes from Popen to process.wait().
ReadsOutput(backend) == backend = "Winget"

\* install() of Winget: "for line in process.stdout: self.root.after(0,
\* lambda l=line: self._log(l.strip(), ...))" reads the next line.
install_read(backend) ==
    /\ install[backend].pc = "running"
    /\ ReadsOutput(backend)
    /\ install[backend].read < install[backend].written
    /\ install' = [install EXCEPT ![backend].read = @ + 1]
    /\ after_queue' = Append(after_queue,
          LogCallback(Entry(backend, "output", install[backend].read + 1)))
    /\ InstallFrame
    /\ UNCHANGED << log_text, progress_label, fs >>

\* install(): the output ended (Winget) and process.wait() returns; the
\* completion is handed to the main loop.
install_wait(backend) ==
    /\ install[backend].pc = "running"
    /\ ScriptExited(backend)
    /\ ReadsOutput(backend) => install[backend].read = install[backend].written
    /\ install' = [install EXCEPT ![backend].pc = "done"]
    /\ after_queue' = after_queue \o
          IF backend = "Winget"
          THEN << LogCallback(Gui("Winget installation complete!")),
                  [call |-> "progress_label", text |-> "Winget installation complete"] >>
          ELSE << LogCallback(Gui("Chocolatey installation complete!")),
                  [call |-> "progress_label", text |-> "Chocolatey installation complete"] >>
    /\ InstallFrame
    /\ UNCHANGED << log_text, progress_label, fs >>

\* ------------------------------------------ restore: the resolver report

\* A report and a URL are sequences of symbols: a symbol is a character the
\* regular expressions of _update_installer_results tell apart, or a run of
\* characters they do not.
Whitespace == {" ", "\n"}
Schemes == {"https://", "http://", "winget://"}

\* [^\s\)]
LinkChar(c) == c \notin Whitespace \cup {")"}

\* [^\s\)\],]
RawChar(c) == c \notin Whitespace \cup {")", "]", ","}

\* The index after the longest run of characters from i on that the class
\* (link: [^\s\)], else [^\s\)\],]) accepts.
RECURSIVE RunEnd(_, _, _)
RunEnd(content, i, link) ==
    IF i <= Len(content) /\ (IF link THEN LinkChar(content[i]) ELSE RawChar(content[i]))
    THEN RunEnd(content, i + 1, link)
    ELSE i

\* re.findall(r'\]\((https?://[^\s\)]+|winget://[^\s\)]+)\)', content) from
\* index i on: the groups of the matches, left to right, none overlapping.
RECURSIVE FindLinks(_, _)
FindLinks(content, i) ==
    IF i > Len(content) THEN <<>>
    ELSE LET end == RunEnd(content, i + 3, TRUE) IN
         IF /\ i + 3 <= Len(content)
            /\ content[i] = "]" /\ content[i + 1] = "("
            /\ content[i + 2] \in Schemes
            /\ end > i + 3
            /\ end <= Len(content) /\ content[end] = ")"
         THEN << SubSeq(content, i + 2, end - 1) >> \o FindLinks(content, end + 1)
         ELSE FindLinks(content, i + 1)

\* re.findall(r'(?:https?|winget)://[^\s\)\],]+', content) from index i on
RECURSIVE FindRaw(_, _)
FindRaw(content, i) ==
    IF i > Len(content) THEN <<>>
    ELSE LET end == RunEnd(content, i + 1, FALSE) IN
         IF content[i] \in Schemes /\ end > i + 1
         THEN << SubSeq(content, i, end - 1) >> \o FindRaw(content, end)
         ELSE FindRaw(content, i + 1)

\* The lists that hold each element of a set once.
RECURSIVE Orders(_)
Orders(set) ==
    IF set = {} THEN { <<>> }
    ELSE UNION { { << x >> \o order : order \in Orders(set \ {x}) } : x \in set }

\* Mutant of AllFound: the two passes are concatenated, not deduplicated.
AllFoundConcatenated(content) == { FindLinks(content, 1) \o FindRaw(content, 1) }

\* all_found = list(set(urls + raw_urls)): the lists it can be, the order
\* of a set of strings being any.
AllFound(content) == Orders(Range(FindLinks(content, 1) \o FindRaw(content, 1)))

\* ["winget://install/", "winget://install"]
Placeholders == { << "winget://", "install", "/" >>, << "winget://", "install" >> }

\* found_urls = [u for u in all_found if u.strip() not in [...]]
FoundUrls(all_found) == SelectSeq(all_found, LAMBDA u : u \notin Placeholders)

\* str.lower() on a URL
LowerUrl(url) ==
    [i \in 1..Len(url) |-> IF url[i] = "GOOGLE.COM/Search" THEN "google.com/search"
                           ELSE url[i]]

\* Mutant of IsSearchUrl: the test does not lower the URL.
IsSearchUrlCased(url) == Contains(<< "google.com/search" >>, url)

\* "google.com/search" in url.lower()
IsSearchUrl(url) == Contains(<< "google.com/search" >>, LowerUrl(url))

\* selectable_urls = [url for url in found_urls if ... not in url.lower()]
SelectableUrls(found) == SelectSeq(found, LAMBDA u : ~IsSearchUrl(u))

\* len(re.findall(r'^### ', content, re.MULTILINE))
ItemCount(content) ==
    Cardinality({i \in 1..(Len(content) - 1) :
                    /\ content[i] = "###" /\ content[i + 1] = " "
                    /\ (i = 1 \/ content[i - 1] = "\n")})

\* The URLs of the reports.
UExe == << "https://", "x", "/", "y.exe" >>
UWinget == << "winget://", "install", "/", "Git.Git" >>
UGoogle == << "https://", "www.", "google.com/search", "?", "q=foo" >>
UGoogleUpper == << "https://", "www.", "GOOGLE.COM/Search", "?", "q=foo" >>
UScript == << "http://", "x", "/", "install_winget.ps1" >>
UComma == << "https://", "x", "/", "a", ",", "b" >>
UQuery == << "https://", "x", "/", "y.exe", "?", "q=foo" >>
Urls == Placeholders \cup {UExe, UWinget, UGoogle, UGoogleUpper, UComma}

\* [label](url)
Link(url) == << "[", "label", "]", "(" >> \o url \o << ")" >>

\* The pieces of a report: a link, a bare URL, or the heading of an item.
Pieces == {Link(url) : url \in Urls} \cup Urls \cup { << "###", " ", "App" >> }

\* ------------------------------------------- restore: the resolver search

\* What the handlers and threads of the Manual Downloads tab leave alone.
SearchFrame ==
    /\ LoadedFrame
    /\ UNCHANGED << notebook_tab, progress_label, full_pc, restore_pc, temp_script,
                    process, log_frames, runs, installVars >>

\* What a handler of the tab that only works on the widgets leaves alone.
WidgetFrame ==
    /\ SearchFrame
    /\ UNCHANGED << restore_messagebox, log_text, fs, after_queue, search_thread,
                    download_thread,
                    found_urls, fetched, searches, downloads >>

\* "Clear Results"
_clear_installer_results ==
    /\ installer_results' = <<>>
    /\ installer_search_info' = [text |-> "Ready to search"]
    /\ download_selection_tree' = <<>>
    /\ download_info_label' = [text |-> "No search results yet. Then select"]
    /\ WidgetFrame
    /\ UNCHANGED download_folder

\* A click on the download tree that identify_row resolves to row i, 0 when
\* the click is below the last row.
_toggle_download_selection(i) ==
    /\ download_selection_tree' =
          IF i = 0 THEN download_selection_tree
          ELSE [download_selection_tree EXCEPT ![i].text =
                   IF @ = Unchecked THEN Checked ELSE Unchecked]
    /\ WidgetFrame
    /\ UNCHANGED << installer_results, installer_search_info, download_info_label,
                    download_folder >>

\* "Select All" (text Checked) and "Deselect All" (text Unchecked)
SetAllDownloads(text) ==
    /\ download_selection_tree' =
          [i \in 1..Len(download_selection_tree) |->
              [download_selection_tree[i] EXCEPT !.text = text]]
    /\ WidgetFrame
    /\ UNCHANGED << installer_results, installer_search_info, download_info_label,
                    download_folder >>

_select_all_downloads == SetAllDownloads(Checked)

_deselect_all_downloads == SetAllDownloads(Unchecked)

\* "Browse..." with the folder the dialog gave, "" when it was cancelled.
_browse_download_folder(folder) ==
    /\ download_folder' = IF folder # "" THEN folder ELSE download_folder
    /\ WidgetFrame
    /\ UNCHANGED << download_selection_tree, installer_results,
                    installer_search_info, download_info_label >>

\* No thread of the tab is at work and no results update is pending.
TabIdle ==
    /\ search_thread.pc \in {"idle", "done", "missing", "failed"}
    /\ download_thread.pc \in {"idle", "done"}
    /\ \A k \in 1..Len(after_queue) : after_queue[k].call # "_update_installer_results"

\* "Search All for Download URLs": the thread search() is started. A session
\* holds one thread of the tab at a time.
_search_manual_downloads ==
    /\ TabIdle
    /\ searches < MaxSearches
    /\ searches' = searches + 1
    /\ IF \/ package_data = None
          \/ ~IsDict(package_data[1])
          \/ "software" \notin DOMAIN package_data[1]
          \/ package_data[1].software = <<>>
       THEN /\ restore_messagebox' = "showerror"
            /\ UNCHANGED search_thread
       ELSE /\ search_thread' = [NoSearch EXCEPT !.pc = "started",
                                          !.software = package_data[1].software]
            /\ UNCHANGED restore_messagebox
    /\ SearchFrame
    /\ UNCHANGED << log_text, fs, after_queue, download_thread, found_urls, fetched,
                    downloads, download_selection_tree, installer_results,
                    installer_search_info, download_info_label, download_folder >>

\* "except Exception as e" of search(): the two callbacks handed to the
\* main loop.
SearchFailed ==
    << [call |-> "showerror"],
       [call |-> "_log_error", file |-> "restore_installer_lookup_debug.txt"] >>

\* search() up to Popen: the results are cleared, the resolver script is
\* looked for (exists), the two temporary files are written to the package
\* directory (written, or open raises) and the resolver is started
\* (launched, or Popen raises).
search_start(exists, written, launched) ==
    /\ search_thread.pc = "started"
    /\ found_urls' = <<>>
    /\ download_selection_tree' = <<>>
    /\ download_info_label' = [text |-> "No search results yet. Then select"]
    /\ installer_search_info' = [searching |-> Len(search_thread.software)]
    /\ LET dir == package_path[1]
           temps == ("software_search_list.json" :> [json |-> search_thread.software])
                    @@ ("temp_search_downloads.ps1" :> [script |-> "Resolve-ManualDownloads"])
       IN
       IF ~exists
       THEN /\ written /\ launched
            /\ LogLookup(fs, << Gui("ERROR: Resolver script not found") >>)
            /\ installer_results' = << "ERROR: Resolver script not found" >>
            /\ search_thread' = [search_thread EXCEPT !.pc = "missing"]
            /\ UNCHANGED after_queue
       ELSE /\ installer_results' = <<>>
            /\ IF ~written
               THEN /\ launched
                    /\ after_queue' = after_queue \o SearchFailed
                    /\ search_thread' = [search_thread EXCEPT !.pc = "failed"]
                    /\ UNCHANGED << log_text, fs >>
               ELSE /\ LogLookup([fs EXCEPT ![dir] = temps @@ fs[dir]],
                                 << Gui("Starting manual download URL search...") >>)
                    /\ IF launched
                       THEN /\ search_thread' = [search_thread EXCEPT !.pc = "running",
                                                        !.manual_downloads = dir]
                            /\ UNCHANGED after_queue
                       ELSE /\ after_queue' = after_queue \o SearchFailed
                            /\ search_thread' = [search_thread EXCEPT !.pc = "failed"]
    /\ SearchFrame
    /\ UNCHANGED << restore_messagebox, download_thread, fetched, searches,
                    downloads, download_folder >>

\* The files of a directory without the named ones.
Unlinked(files, names) == [f \in (DOMAIN files) \ names |-> files[f]]

\* The environment: the resolver writes a piece and the end of its line to
\* manual_downloads.md, a new file at the first piece.
resolver_write(piece) ==
    /\ search_thread.pc = "running"
    /\ search_thread.pieces < MaxPieces
    /\ LET dir == search_thread.manual_downloads
           old == IF search_thread.report = None THEN <<>> ELSE search_thread.report[1]
           content == old \o piece \o << "\n" >>
       IN
       /\ fs' = [fs EXCEPT ![dir] = ("manual_downloads.md" :> [content |-> content]) @@ fs[dir]]
       /\ search_thread' = [search_thread EXCEPT !.report = Some(content),
                                                 !.pieces = @ + 1]
    /\ SearchFrame
    /\ UNCHANGED << restore_messagebox, log_text, after_queue, download_thread,
                    found_urls, fetched, searches, downloads, download_selection_tree,
                    installer_results, installer_search_info, download_info_label,
                    download_folder >>

\* The resolver run to its end: it printed lines lines and wrote the report
\* outcome[1] to manual_downloads.md, or wrote no more (outcome = None), and
\* exited. search() logged the lines, handed _update_installer_results to
\* the main loop, logged the end and removed the temporary files.
search_finish(outcome, lines) ==
    /\ search_thread.pc = "running"
    /\ LET dir == search_thread.manual_downloads
           results_text == [n \in 1..lines |-> Entry("resolver", "output", n)]
           written == IF outcome = None THEN fs
                      ELSE [fs EXCEPT ![dir] =
                              ("manual_downloads.md" :> [content |-> outcome[1]]) @@ fs[dir]]
           logged == DebugWrittenTo(written, "restore_installer_lookup_debug.txt",
                        results_text \o << Gui("Manual download search complete.") >>)
       IN
       /\ log_text' = log_text \o results_text \o << Gui("Manual download search complete.") >>
       /\ fs' = [logged EXCEPT ![dir] =
                   Unlinked(logged[dir], {"temp_search_downloads.ps1",
                                          "software_search_list.json"})]
       /\ after_queue' = Append(after_queue,
              [call |-> "_update_installer_results", results |-> results_text,
               manual_downloads_path |-> dir])
    /\ search_thread' = [search_thread EXCEPT
                            !.pc = "done",
                            !.report = IF outcome = None THEN @ ELSE outcome]
    /\ SearchFrame
    /\ UNCHANGED << restore_messagebox, download_thread, found_urls, fetched, searches,
                    downloads, download_selection_tree, installer_results,
                    installer_search_info, download_info_label, download_folder >>

\* "for item in self.download_selection_tree.get_children():
\*      self.download_selection_tree.delete(item)"
ClearedTree(tree) == <<>>

\* The rows _update_installer_results inserts for the selectable URLs.
DownloadRows(urls) == [i \in 1..Len(urls) |-> [text |-> Unchecked, url |-> urls[i]]]

\* The main loop runs _update_installer_results(results, manual_downloads_path).
_update_installer_results ==
    /\ after_queue # <<>>
    /\ Head(after_queue).call = "_update_installer_results"
    /\ after_queue' = Tail(after_queue)
    /\ LET cb == Head(after_queue)
           files == fs[cb.manual_downloads_path]
           exists == "manual_downloads.md" \in DOMAIN files
           content == IF exists THEN files["manual_downloads.md"].content ELSE <<>>
       IN
       \E all_found \in AllFound(content) :
          LET found == FoundUrls(all_found)
              selectable_urls == SelectableUrls(found)
          IN
          /\ found_urls' = found
          /\ installer_results' =
                installer_results \o (IF exists THEN << content >> ELSE cb.results)
          /\ installer_search_info' =
                IF exists THEN [found |-> Len(found), items |-> ItemCount(content)]
                ELSE [processed |-> Len(cb.results)]
          /\ download_selection_tree' =
                ClearedTree(download_selection_tree) \o DownloadRows(selectable_urls)
          /\ download_info_label' =
                IF found = <<>> THEN [text |-> "No download URLs found in search results."]
                ELSE IF selectable_urls = <<>>
                THEN [text |-> "No direct download URLs found (only search fallbacks)."]
                ELSE [direct |-> Len(selectable_urls)]
    /\ SearchFrame
    /\ UNCHANGED << restore_messagebox, log_text, fs, search_thread,
                    download_thread, fetched,
                    searches, downloads, download_folder >>

\* ------------------------------------------- restore: the download batch

\* The part of a symbol after its last '/', for the symbols that hold one.
AfterSlash(c) ==
    CASE c = "google.com/search" -> << "search" >>
      [] c = "GOOGLE.COM/Search" -> << "Search" >>
      [] OTHER -> <<>>

HasSlash(c) == c \in Schemes \cup {"/", "google.com/search", "GOOGLE.COM/Search"}

\* url.split('/')[-1] from the end of the URL down to index i
RECURSIVE LastSegment(_, _)
LastSegment(url, i) ==
    IF i = 0 THEN <<>>
    ELSE IF HasSlash(url[i]) THEN AfterSlash(url[i])
    ELSE LastSegment(url, i - 1) \o << url[i] >>

\* segment.split('?')[0] from index i on
RECURSIVE BeforeQuery(_, _)
BeforeQuery(segment, i) ==
    IF i > Len(segment) \/ segment[i] = "?" THEN <<>>
    ELSE << segment[i] >> \o BeforeQuery(segment, i + 1)

\* The string of a sequence of symbols.
RECURSIVE Joined(_)
Joined(symbols) == IF symbols = <<>> THEN "" ELSE Head(symbols) \o Joined(Tail(symbols))

\* filename = url.split('/')[-1].split('?')[0] or 'installer.exe'
FileName(url) ==
    LET name == BeforeQuery(LastSegment(url, Len(url)), 1) IN
    IF name = <<>> THEN "installer.exe" ELSE Joined(name)

\* selected_urls: the URLs of the checked rows, in the order of the rows.
SelectedUrls(tree) ==
    LET rows == SelectSeq(tree, LAMBDA row : row.text = Checked) IN
    [i \in 1..Len(rows) |-> rows[i].url]

\* "Download Selected URLs": the thread download() is started. A session
\* holds one thread of the tab at a time.
_download_selected_urls ==
    /\ TabIdle
    /\ downloads < MaxDownloads
    /\ downloads' = downloads + 1
    /\ LET selected_urls == SelectedUrls(download_selection_tree) IN
       IF selected_urls = <<>>
       THEN /\ restore_messagebox' = "showinfo"
            /\ UNCHANGED download_thread
       ELSE IF download_folder = "" \/ download_folder \notin DOMAIN fs
       THEN /\ restore_messagebox' = "showerror"
            /\ UNCHANGED download_thread
       ELSE /\ download_thread' = [pc |-> "running", urls |-> selected_urls, i |-> 1,
                                   folder |-> download_folder,
                                   start |-> Len(fetched)]
            /\ UNCHANGED restore_messagebox
    /\ SearchFrame
    /\ UNCHANGED << log_text, fs, after_queue, search_thread, found_urls, fetched,
                    searches, download_selection_tree, installer_results,
                    installer_search_info, download_info_label, download_folder >>

\* Mutant of IsWingetUrl: no URL is taken for a Winget one.
IsWingetUrlNever(url) == FALSE

\* url.startswith('winget://')
IsWingetUrl(url) == url # <<>> /\ url[1] = "winget://"

\* Mutant of AfterFailure: a failed fetch ends the loop.
AfterFailureBreak(i, n) == n + 1

\* The index download() goes on with after the fetch of item i of n raised:
\* the except clause is inside the loop.
AfterFailure(i, n) == i + 1

\* download(): one turn of "for i, url in enumerate(selected_urls)": the
\* note on a Winget URL, or the fetch, which succeeds (ok) or raises.
download_item(ok) ==
    /\ download_thread.pc = "running"
    /\ download_thread.i <= Len(download_thread.urls)
    /\ LET i == download_thread.i
           url == download_thread.urls[i]
           folder == download_thread.folder
       IN
       IF IsWingetUrl(url)
       THEN /\ ok
            /\ LogLookup(fs, << Entry("gui", "Installer found via Winget", url),
                                Gui("  Note: You can install this later via the Winget install phase.") >>)
            /\ download_thread' = [download_thread EXCEPT !.i = i + 1]
            /\ UNCHANGED fetched
       ELSE /\ fetched' = Append(fetched, [url |-> url, ok |-> ok])
            /\ IF ok
               THEN /\ LogLookup([fs EXCEPT ![folder] =
                                    (FileName(url) :> [downloaded |-> url]) @@ fs[folder]],
                                 << Entry("gui", "Downloading", url),
                                    Entry("gui", "Downloaded", url) >>)
                    /\ download_thread' = [download_thread EXCEPT !.i = i + 1]
               ELSE /\ LogLookup(fs, << Entry("gui", "Downloading", url),
                                        Entry("gui", "Failed to download", url) >>)
                    /\ download_thread' =
                          [download_thread EXCEPT
                              !.i = AfterFailure(i, Len(download_thread.urls))]
    /\ SearchFrame
    /\ UNCHANGED << restore_messagebox, after_queue, search_thread, found_urls,
                    searches, downloads, download_selection_tree, installer_results,
                    installer_search_info, download_info_label, download_folder >>

\* download(): the loop ended, the "Complete" dialog is handed to the main
\* loop; its message is f"Downloaded {len(selected_urls)} files to:\n
\* {download_folder}".
download_done ==
    /\ download_thread.pc = "running"
    /\ download_thread.i > Len(download_thread.urls)
    /\ download_thread' = [download_thread EXCEPT !.pc = "done"]
    /\ after_queue' = Append(after_queue,
          [call |-> "showinfo", downloaded |-> Len(download_thread.urls),
           folder |-> download_thread.folder])
    /\ SearchFrame
    /\ UNCHANGED << restore_messagebox, log_text, fs, search_thread, found_urls,
                    fetched, searches, downloads, download_selection_tree,
                    installer_results, installer_search_info, download_info_label,
                    download_folder >>

\* ------------------------------------------------------ restore: main loop

\* The Tk main loop runs the oldest callback given to root.after(0, ...),
\* from mainloop() or from the root.update() of a _log it is inside of.
\* A callback that is a _log inserts its message in the log view and enters
\* root.update(); its _write_debug follows when update() returns (log_return).
\* The callback of an except branch reads the exception variable e of a
\* block that may have ended (e is then unbound and the callback raises
\* NameError, which Tk prints to stderr): bound says which.
run_after(bound) ==
    /\ after_queue # <<>>
    /\ Head(after_queue).call # "_update_installer_results"
    /\ after_queue' = Tail(after_queue)
    /\ LET cb == Head(after_queue) IN
       CASE cb.call = "showerror" ->
              /\ restore_messagebox' = IF bound THEN "showerror" ELSE restore_messagebox
              /\ UNCHANGED << log_text, log_frames, fs, progress_label, restore_pc,
                              notebook_tab >>
         [] cb.call = "showinfo" ->
              /\ bound
              /\ restore_messagebox' = "showinfo"
              /\ UNCHANGED << log_text, log_frames, fs, progress_label, restore_pc,
                              notebook_tab >>
         [] cb.call = "_log" ->
              /\ bound
              /\ log_text' = Append(log_text, cb.entry)
              /\ log_frames' = Append(log_frames, [entry |-> cb.entry, file |-> cb.file])
              /\ UNCHANGED << fs, progress_label, restore_pc, notebook_tab,
                              restore_messagebox >>
         [] cb.call = "_log_error" ->
              /\ IF bound
                 THEN /\ log_text' = Append(log_text, Gui("Error: "))
                      /\ log_frames' = Append(log_frames,
                            [entry |-> Gui("Error: "), file |-> cb.file])
                 ELSE UNCHANGED << log_text, log_frames >>
              /\ UNCHANGED << fs, progress_label, restore_pc, notebook_tab,
                              restore_messagebox >>
         [] cb.call = "progress_label" ->
              /\ bound
              /\ progress_label' = cb.text
              /\ UNCHANGED << log_text, log_frames, fs, restore_pc, notebook_tab,
                              restore_messagebox >>
         [] cb.call = "_restore_configs" ->
              /\ bound
              /\ IF package_path = None
                 THEN /\ restore_messagebox' = "showerror"
                      /\ UNCHANGED << notebook_tab, restore_pc >>
                 ELSE /\ notebook_tab' = 3
                      /\ restore_pc' = "start"
                      /\ UNCHANGED restore_messagebox
              /\ UNCHANGED << log_text, log_frames, fs, progress_label >>
    /\ PackageFrame
    /\ UNCHANGED << full_pc, temp_script, process, runs >>

\* root.update() returns when no event is pending.
UpdateReturns == after_queue = <<>>

\* The root.update() of the innermost _log returns and the _log goes on to
\* "if debug_file: self._write_debug(debug_file, message)".
log_return ==
    /\ log_frames # <<>>
    /\ UpdateReturns
    /\ fs' = DebugWrittenTo(fs, log_frames[Len(log_frames)].file,
                            << log_frames[Len(log_frames)].entry >>)
    /\ log_frames' = SubSeq(log_frames, 1, Len(log_frames) - 1)
    /\ PackageFrame
    /\ UNCHANGED << restore_messagebox, notebook_tab, log_text, progress_label,
                    full_pc, restore_pc, temp_script, process, after_queue, runs >>

\* ------------------------------------------------ restore: the specification

\* A session of the restore window: package loads, Full Restore runs, the
\* steps of their threads and processes, and the main loop.
NextRestore ==
    \/ \E path \in PackageDirs : _load_package_from_path(path)
    \/ \E confirm \in BOOLEAN : _full_restore(confirm)
    \/ full_phase1
    \/ \E launched \in BOOLEAN : full_launch(launched)
    \/ full_read
    \/ full_wait
    \/ full_phase2
    \/ \E bound \in BOOLEAN : run_after(bound)
    \/ log_return
    \/ restore_start
    \/ \E written, launched \in BOOLEAN : restore_script(written, launched)
    \/ restore_read
    \/ restore_wait
    \/ \E i \in 1..Len(process) : \E code \in ExitCodes : process_exit(i, code)

SpecRestore == Init /\ [][NextRestore]_vars

\* A session of the restore window in which no process launch raises: the
\* packages with scripts are loaded, then a Full Restore run is started; the
\* steps of its threads and processes, and the main loop.
NextRun ==
    \/ runs = 0 /\ \E path \in {"Pkg_A", "Pkg_C"} : _load_package_from_path(path)
    \/ \E confirm \in BOOLEAN : _full_restore(confirm)
    \/ full_phase1
    \/ full_launch(TRUE)
    \/ full_read
    \/ full_wait
    \/ full_phase2
    \/ \E bound \in BOOLEAN : run_after(bound)
    \/ log_return
    \/ restore_start
    \/ \E written \in BOOLEAN : restore_script(written, TRUE)
    \/ restore_read
    \/ restore_wait
    \/ \E i \in 1..Len(process) : \E code \in ExitCodes : process_exit(i, code)

SpecRun == Init /\ [][NextRun]_vars

\* The threads, the processes and the main loop keep running: a step that
\* can be taken is taken, so every launched process exits.
SpecRunLive == SpecRun /\ WF_vars(NextRun)

\* A session of the restore window with the standalone installs: package
\* loads, the two install buttons, the steps of their threads and scripts,
\* and the main loop.
NextInstall ==
    \/ \E path \in {"Pkg_A", "Pkg_C"} : _load_package_from_path(path)
    \/ _install_winget
    \/ _install_chocolatey
    \/ \E backend \in Backends : \E launched \in BOOLEAN : \E total \in 0..MaxLines :
          install_start(backend, launched, total)
    \/ \E backend \in Backends : script_write(backend)
    \/ \E backend \in Backends : install_read(backend)
    \/ \E backend \in Backends : install_wait(backend)
    \/ \E bound \in BOOLEAN : run_after(bound)
    \/ log_return

SpecInstall == Init /\ [][NextInstall]_vars

\* A session of the restore window with one resolver search: package loads,
\* the search with any report the resolver may write piece by piece, and the
\* main loop.
NextSearch ==
    \/ \E path \in {"Pkg_A", "Pkg_L"} : _load_package_from_path(path)
    \/ searches = 0 /\ _search_manual_downloads
    \/ \E exists, written, launched \in BOOLEAN : search_start(exists, written, launched)
    \/ \E piece \in Pieces : resolver_write(piece)
    \/ \E lines \in 0..1 : search_finish(None, lines)
    \/ _update_installer_results
    \/ \E bound \in BOOLEAN : run_after(bound)
    \/ log_return

SpecSearch == Init /\ [][NextSearch]_vars

\* The reports of the sessions with several searches or with downloads.
SampleReports ==
    { Link(UExe) \o << "\n" >> \o Link(UScript),
      Link(UWinget) \o << "\n" >> \o Link(UExe) \o << "\n" >> \o UExe,
      Link(UGoogle) \o << "\n" >> \o Link(UGoogleUpper) \o << "\n" >> \o Link(UExe),
      Link(UExe) \o << "\n" >> \o Link(UQuery) }

\* A session of the restore window with several searches: the package is
\* loaded, then searches, the handlers of the download list and the main
\* loop.
NextResearch ==
    \/ package_loads = 0 /\ _load_package_from_path("Pkg_A")
    \/ _search_manual_downloads
    \/ \E exists, written, launched \in BOOLEAN : search_start(exists, written, launched)
    \/ \E report \in SampleReports : search_finish(Some(report), 0)
    \/ search_finish(None, 0)
    \/ _update_installer_results
    \/ _clear_installer_results
    \/ \E i \in 0..Len(download_selection_tree) : _toggle_download_selection(i)
    \/ _select_all_downloads
    \/ _deselect_all_downloads
    \/ \E bound \in BOOLEAN : run_after(bound)
    \/ log_return

SpecResearch == Init /\ [][NextResearch]_vars

\* A session of the restore window with downloads: the package is loaded,
\* one search, the handlers of the download list, download batches and the
\* main loop.
NextDownload ==
    \/ package_loads = 0 /\ _load_package_from_path("Pkg_A")
    \/ searches = 0 /\ _search_manual_downloads
    \/ \E exists, written, launched \in BOOLEAN : search_start(exists, written, launched)
    \/ \E report \in SampleReports : search_finish(Some(report), 0)
    \/ _update_installer_results
    \/ \E i \in 0..Len(download_selection_tree) : _toggle_download_selection(i)
    \/ _select_all_downloads
    \/ \E folder \in {"", "Pkg_A"} : _browse_download_folder(folder)
    \/ _download_selected_urls
    \/ \E ok \in BOOLEAN : download_item(ok)
    \/ download_done
    \/ \E bound \in BOOLEAN : run_after(bound)
    \/ log_return

SpecDownload == Init /\ [][NextDownload]_vars

\* The threads, the scripts and the main loop keep running: a step that
\* can be taken is taken.
SpecInstallLive == SpecInstall /\ WF_vars(NextInstall)

\* ------------------------------------------------------------------ claims

\* The state right after an export that completed (the success dialog shown).
ExportDone == lastOp.op = "_export_selection" /\ messagebox = "showinfo"

\* The directory of that export, its content and the package written to it.
ExportDir == status_var[2]
Exported == fs[ExportDir]
ExportedPackage == Exported["migration_package.json"].json

\* A file of the export directory that this export wrote.
WrittenNow(file) == file \in DOMAIN Exported /\ Exported[file].mtime = exports

ScriptFile(backend) ==
    IF backend = "Winget" THEN "install_winget.ps1" ELSE "install_chocolatey.ps1"

\* The class of a software entry: Winget when it has a WingetId, otherwise
\* Chocolatey when it has a ChocolateyId, otherwise Manual.
Class(entry) ==
    CASE "WingetId" \in DOMAIN entry /\ entry["WingetId"] # "" -> "Winget"
      [] OTHER ->
            IF "ChocolateyId" \in DOMAIN entry /\ entry["ChocolateyId"] # ""
            THEN "Chocolatey" ELSE "Manual"

\* The identifier an entry of a class gives to the script of its class.
ClassId(entry) ==
    IF Class(entry) = "Winget" THEN entry["WingetId"] ELSE entry["ChocolateyId"]

\* The identifiers the entries of class backend give, in package order.
RECURSIVE ClassIds(_, _)
ClassIds(software, backend) ==
    IF software = <<>> THEN <<>>
    ELSE (IF Class(Head(software)) = backend THEN <<ClassId(Head(software))>> ELSE <<>>)
         \o ClassIds(Tail(software), backend)

\* C1: after an export, every software entry of the package is in exactly one
\* class (Winget if it has a WingetId, else Chocolatey if it has a
\* ChocolateyId, else manual) and the script this export wrote for a backend
\* lists exactly the identifiers of the entries of that class: an entry with
\* both identifiers gives its WingetId to install_winget.ps1 and nothing to
\* install_chocolatey.ps1, and a manual entry gives nothing to either.
C1_OneClassPerEntry ==
    ExportDone =>
        \A backend \in Backends :
            LET ids == ClassIds(ExportedPackage.software, backend) IN
            IF ids = <<>>
            THEN ~WrittenNow(ScriptFile(backend))
            ELSE /\ WrittenNow(ScriptFile(backend))
                 /\ Exported[ScriptFile(backend)].packages = ids

\* An export of a package that holds an entry with both identifiers, an entry
\* with a ChocolateyId only and so both scripts.
C1_Witness ==
    /\ ExportDone
    /\ \E i \in 1..Len(ExportedPackage.software) :
          /\ Get(ExportedPackage.software[i], "WingetId") # ""
          /\ Get(ExportedPackage.software[i], "ChocolateyId") # ""
    /\ WrittenNow("install_winget.ps1")
    /\ WrittenNow("install_chocolatey.ps1")

NoDuplicates(seq) == \A i, j \in 1..Len(seq) : seq[i] = seq[j] => i = j

\* seq is a subsequence of base: its elements in the order base has them
RECURSIVE IsSubSeq(_, _)
IsSubSeq(seq, base) ==
    IF seq = <<>> THEN TRUE
    ELSE IF base = <<>> THEN FALSE
    ELSE IF Head(seq) = Head(base) THEN IsSubSeq(Tail(seq), Tail(base))
    ELSE IsSubSeq(seq, Tail(base))

\* C2: in each install script an export wrote, no identifier is listed twice,
\* every identifier of the backend's entries is listed and the identifiers
\* are in the order of the selected entries of the package.
C2_ScriptsDeduplicated ==
    ExportDone =>
        \A backend \in Backends :
            WrittenNow(ScriptFile(backend)) =>
                LET listed == Exported[ScriptFile(backend)].packages
                    ids == ClassIds(ExportedPackage.software, backend)
                IN /\ NoDuplicates(listed)
                   /\ Range(listed) = Range(ids)
                   /\ IsSubSeq(listed, ids)

\* C3: after an export the output directory holds the script of a backend if
\* and only if the package just exported has an identifier for that backend.
C3_ScriptIffIdentifiers ==
    ExportDone =>
        \A backend \in Backends :
            ScriptFile(backend) \in DOMAIN Exported
                <=> ClassIds(ExportedPackage.software, backend) # <<>>

\* The entries of list whose row prefix_(i-1) has selection value TRUE, each
\* once, in the order of list.
RECURSIVE SelectedInScanOrder(_, _, _, _)
SelectedInScanOrder(list, sel, prefix, i) ==
    IF i > Len(list) THEN <<>>
    ELSE (IF Iid(prefix, i - 1) \in DOMAIN sel.val /\ sel.val[Iid(prefix, i - 1)]
          THEN <<list[i]>> ELSE <<>>)
         \o SelectedInScanOrder(list, sel, prefix, i + 1)

\* The software entries of the loaded scan, as a package holds them.
ScanSoftware ==
    LET d == scan_data[1] IN
    IF "mappings" \in DOMAIN d THEN d["mappings"]
    ELSE IF "software" \in DOMAIN d /\ "InstalledSoftware" \in DOMAIN d["software"]
    THEN [i \in 1..Len(d["software"]["InstalledSoftware"]) |->
            LET sw == d["software"]["InstalledSoftware"][i] IN
            [SoftwareName |-> sw.Name, Version |-> sw.Version,
             Publisher |-> sw.Publisher, InstallMethod |-> "Manual"]]
    ELSE <<>>

\* The store apps of the loaded scan.
ScanStoreApps ==
    LET d == scan_data[1] IN
    IF "software" \in DOMAIN d /\ "StoreApps" \in DOMAIN d["software"]
    THEN d["software"]["StoreApps"]
    ELSE <<>>

\* C4: the software list and the store-app list of an exported package are
\* exactly the entries of the loaded scan whose selection value is true at
\* export time, each once, in scan order, whatever handlers ran before.
C4_PackageIsSelection ==
    ExportDone =>
        /\ ExportedPackage.software =
              SelectedInScanOrder(ScanSoftware, selections["software"], "sw", 1)
        /\ ExportedPackage.store_apps =
              SelectedInScanOrder(ScanStoreApps, selections["store_apps"], "store", 1)

\* An export after a reload, with the software filter narrowed, of some but
\* not all software entries and of a store app.
C4_Witness ==
    /\ ExportDone
    /\ loads = 2
    /\ Len(software_tree.children) < Len(all_sw_iids)
    /\ Len(ExportedPackage.software) \in 1..(Len(ScanSoftware) - 1)

\* The identifiers of a category that are displayed, and those of its
\* selection state that are not (filtered out of the display, or without a
\* row).
Displayed(category) == Range(TreeOf(category).children)
NotDisplayed(category) == (DOMAIN selections[category].val) \ Displayed(category)

\* The identifiers of the entries an export performed now would write for a
\* category.
ExportNext(category) ==
    IF scan_data = None THEN {}
    ELSE LET sel == selections[category]
             list == IF category = "software" THEN ScanSoftware ELSE ScanStoreApps
         IN {item \in DOMAIN sel.val : sel.val[item] /\ IidIndex(item) < Len(list)}

\* _select_all(category) ran and _deselect_all(category) ran right after it.
SelectAllThenDeselectAll(category) ==
    /\ lastOp.op = "_deselect_all"
    /\ lastOp.category = category
    /\ afterSelectAll = category

AllIids(category) == IF category = "software" THEN all_sw_iids ELSE all_store_iids

\* C7: the visible sequence of identifiers of a list is the insertion order
\* with the filtered-out identifiers removed.
C7_VisibleInInsertionOrder ==
    \A category \in TreeCategories :
        TreeOf(category).children =
            SelectSeq(AllIids(category), LAMBDA item : item \in Displayed(category))

\* C8: a click that names an identifier which is not in the category's
\* selection state adds no identifier, flips no value, changes no row and
\* shows no error.
C8_UnknownToggleNoOp ==
    [][ ( /\ lastOp'.op = "_toggle_selection"
          /\ lastOp'.item \notin DOMAIN selections[lastOp'.category].val )
        => /\ selections' = selections
           /\ software_tree' = software_tree
           /\ store_apps_tree' = store_apps_tree
           /\ messagebox' = "none"
      ]_vars

\* A click ran that named an identifier the selection state of its category
\* does not hold, while the state holds other identifiers.
C8_Witness ==
    /\ lastOp.op = "_toggle_selection"
    /\ lastOp.category = "software"
    /\ lastOp.item # <<>>
    /\ lastOp.item \notin DOMAIN selections["software"].val
    /\ selections["software"].keys # <<>>

\* C9: no handler other than a scan load removes an identifier from a
\* selection state, and every identifier keeps a boolean value.
C9_IdentifiersKept ==
    [][ loads' = loads =>
          \A category \in Categories :
             \A item \in DOMAIN selections[category].val :
                /\ item \in DOMAIN selections'[category].val
                /\ selections'[category].val[item] \in BOOLEAN
                /\ item \in Range(selections'[category].keys)
      ]_vars

\* After a load, a deselection, a summary and an export every identifier of
\* the scan is still in the selection state.
C9_Witness ==
    /\ loads = 1
    /\ exports = 1
    /\ "selected_software" \in DOMAIN summary_text
    /\ Len(selections["software"].keys) = 3
    /\ \E item \in DOMAIN selections["software"].val : ~selections["software"].val[item]
    /\ \E item \in DOMAIN selections["software"].val : selections["software"].val[item]

\* The row identifiers _populate_ui gives the rows of the loaded scan.
ScanIids(category) ==
    LET d == scan_data[1]
        n == IF category = "software" THEN Len(SoftwareRows(d)) ELSE Len(StoreRows(d))
    IN {Iid(IF category = "software" THEN "sw" ELSE "store", i) : i \in 0..(n - 1)}

\* C10: after a scan was loaded, each category's selection state holds
\* exactly the identifiers of the newly loaded scan.
C10_SelectionDiscarded ==
    (lastOp.op = "_load_scan_from_path" /\ messagebox = "none") =>
        \A category \in TreeCategories :
            DOMAIN selections[category].val = ScanIids(category)

\* The load just run read a directory in which an inventory file is damaged.
LoadOfUnparsable ==
    /\ lastOp'.op = "_load_scan_from_path"
    /\ ReadInventory(fs[lastOp'.item[1]], <<>>, 1).raised

\* C11: a load that fails on an unparsable inventory file is reported and
\* leaves the loaded scan data, the current scan path, the displayed lists
\* and the selection state as they were before the attempt.
C11_FailedLoadChangesNothing ==
    [][ LoadOfUnparsable =>
          /\ messagebox' = "showerror"
          /\ scan_data' = scan_data
          /\ current_scan_path' = current_scan_path
          /\ software_tree' = software_tree
          /\ store_apps_tree' = store_apps_tree
          /\ selections' = selections
      ]_vars

\* The files of the output directory an export attempt wrote.
WrittenBy(files, now) ==
    {f \in DOMAIN files : "mtime" \in DOMAIN files[f] /\ files[f].mtime = now}

\* C13: an export that fails at one of its writes leaves no file written by
\* it in the output directory.
C13_FailedExportWritesNothing ==
    [][ (lastOp'.op = "_export_selection" /\ messagebox' = "showerror") =>
           \A output_dir \in OutputDirs :
              /\ WrittenBy(fs'[output_dir], exports') = {}
              /\ fs'[output_dir] = fs[output_dir]
      ]_vars

\* No inventory is loaded: no load was made, or the load stored no inventory
\* file (the test _populate_ui makes with "if not self.scan_data").
NoInventoryLoaded == scan_data = None \/ scan_data = Some(<<>>)

\* C14: an export made while no inventory is loaded is reported as failed and
\* writes no package file and no install script.
C14_ExportWithoutScanFails ==
    [][ (lastOp'.op = "_export_selection" /\ NoInventoryLoaded) =>
           /\ messagebox' = "showerror"
           /\ fs' = fs
      ]_vars

\* A successful export was made and the next handler run is another one.
ExportedTwice ==
    /\ lastOp.op = "_export_selection"
    /\ messagebox = "showinfo"
    /\ lastOp'.op = "_export_selection"
    /\ messagebox' = "showinfo"

PackageUnreadable(path) ==
    \/ "migration_package.json" \notin DOMAIN fs[path]
    \/ fs[path]["migration_package.json"].parse # "ok"

\* C12: a package load that fails because migration_package.json is missing
\* or unparsable reports an error and leaves the loaded package data and the
\* package path as they were.
C12_FailedPackageLoadKeepsPackage ==
    [][ \A path \in PackageDirs :
          (_load_package_from_path(path) /\ PackageUnreadable(path)) =>
             /\ restore_messagebox' = "showerror"
             /\ package_data' = package_data
             /\ package_path' = package_path
      ]_vars

\* Pkg_A was loaded and a second load then failed: Pkg_A is still the loaded
\* package.
C12_Witness ==
    /\ package_loads = 2
    /\ restore_messagebox = "showerror"
    /\ package_path = Some("Pkg_A")
    /\ package_data = Some(PackageA)

\* The phases of a Full Restore run in their order.
RunPhases == << "Winget", "Chocolatey", "config" >>

\* C16: the processes of a run are launched in the order Winget, Chocolatey,
\* config restore, each at most once, a process is launched only when the
\* ones before it have exited, and no two of them are alive together.
C16_PhasesSequential ==
    /\ IsSubSeq([i \in 1..Len(process) |-> process[i].phase], RunPhases)
    /\ \A i \in Alive : i = Len(process)
    /\ Cardinality(Alive) <= 1

\* A run in which the three processes were launched, the last one alive.
C16_Witness ==
    /\ Len(process) = 3
    /\ Alive = {3}
    /\ process[1].printed > 0

\* The lines the run added to the log.
RunLog == log_text

\* A run was made and is over: its threads ended and no callback is pending.
RunOver == runs > 0 /\ NoRunActive

\* The process of a backend phase ended with a non-zero exit code.
BackendFailed(phase) ==
    /\ ProcessOf(phase) # 0
    /\ process[ProcessOf(phase)].state = "exited"
    /\ process[ProcessOf(phase)].code # 0

\* A launch of the run raised: full() ended at the Popen of a backend phase,
\* or restore() went through its except branch.
LaunchRaised ==
    \/ full_pc.at = "crashed" /\ full_pc.phase \in Backends
                              /\ ProcessOf(full_pc.phase) = 0
    \/ restore_pc = "failed"

\* The run ended in the completed outcome.
Completed ==
    /\ ProcessOf("config") # 0
    /\ \E k \in 1..Len(RunLog) : RunLog[k] = Gui("Configuration restore complete!")
    /\ \A k \in 1..Len(RunLog) : RunLog[k] # Gui("Error: ")

\* C17: a run in which a backend process exited non-zero and no launch
\* raised still ran the Chocolatey phase when its script was there, ran the
\* config restore and ended completed.
C17_NonZeroExitDoesNotAbort ==
    \A phase \in Backends :
        (RunOver /\ BackendFailed(phase) /\ ~LaunchRaised) =>
            /\ Completed
            /\ (phase = "Winget" /\ package_loads = 1
                   /\ "install_chocolatey.ps1" \in DOMAIN fs[package_path[1]])
                  => ProcessOf("Chocolatey") # 0

\* A finished run whose Winget process exited non-zero, whose Chocolatey
\* process then ran, and that completed.
C17_Witness ==
    /\ RunOver
    /\ BackendFailed("Winget")
    /\ ProcessOf("Chocolatey") # 0
    /\ Completed

\* The texts full() and restore() write to the log whatever the exit codes
\* of the processes are and whether or not a script is there.
RunTexts ==
    {"==================================================",
     "PHASE 1: Installing Software", "\nInstalling via Winget...",
     "\nInstalling via Chocolatey...",
     "\n==================================================",
     "PHASE 2: Restoring Configuration",
     "==================================================\n",
     "Starting configuration restore...", "Configuration restore complete!",
     "Error: "}

\* The window wrote a line of its own to the log of the run that is not one
\* of those texts.
OtherEntryLogged ==
    \E k \in 1..Len(RunLog) : RunLog[k].from = "gui" /\ RunLog[k].text \notin RunTexts

\* C18: when a backend process of a run exited non-zero, the log of the run
\* holds an entry of the window that records the failed exit.
C18_FailedExitLogged ==
    \A phase \in Backends :
        (RunOver /\ BackendFailed(phase)) => OtherEntryLogged

\* C19: when a phase of a run ended by an exception, the log reports the
\* failure and holds every output line received from the processes.
C19_ExceptionReported ==
    (runs > 0 /\ after_queue = <<>> /\ (full_pc.at = "crashed" \/ restore_pc = "failed")) =>
        /\ \E k \in 1..Len(RunLog) : RunLog[k] = Gui("Error: ")
        /\ \A i \in 1..Len(process) :
              \A n \in 1..process[i].printed :
                 \E k \in 1..Len(RunLog) : RunLog[k] = Entry(process[i].phase, "output", n)

\* full() went past a backend phase without launching a process for it.
Skipped(phase) ==
    /\ runs > 0
    /\ ProcessOf(phase) = 0
    /\ \/ full_pc.at \in {"phase2", "done"}
       \/ phase = "Winget" /\ full_pc.phase = "Chocolatey"

\* C20: a backend whose script does not exist is skipped: no process is
\* launched for it, the run goes on, and the log holds a "skipped" entry.
C20_MissingScriptLogged ==
    \A phase \in Backends : Skipped(phase) => OtherEntryLogged

\* The lines of restore_debug.txt in a package directory.
DebugLines(dir) ==
    IF "restore_debug.txt" \in DOMAIN fs[dir] THEN fs[dir]["restore_debug.txt"].lines
    ELSE <<>>

\* No two output lines of one process are in lines in the reverse of the
\* order the thread received them in.
InReceiptOrder(lines) ==
    \A j, k \in 1..Len(lines) :
        (j < k /\ lines[j].from # "gui" /\ lines[j].from = lines[k].from)
            => lines[j].n < lines[k].n

\* The log view holds the output lines in receipt order.
ViewInReceiptOrder == installs <= 1 => InReceiptOrder(log_text)

\* C21: the output lines of a process are in the log view and in
\* restore_debug.txt in the order they were received from the process
\* (stated for the first install of a session, whose lines are numbered
\* from one).
C21_OutputInReceiptOrder ==
    installs <= 1 =>
        /\ InReceiptOrder(log_text)
        /\ \A dir \in PackageDirs : InReceiptOrder(DebugLines(dir))

\* The Chocolatey script of a standalone install is running.
ChocolateyRunning == install["Chocolatey"].pc = "running"

\* C22: a standalone Chocolatey install whose script was started eventually
\* logs "Chocolatey installation complete!", whatever the script prints.
C22_ChocolateyCompletes ==
    ChocolateyRunning ~>
        (\E k \in 1..Len(log_text) : log_text[k] = Gui("Chocolatey installation complete!"))

\* The files of a package that export wrote and restore reads.
PackageFileNames ==
    {"migration_package.json", "install_winget.ps1", "install_chocolatey.ps1"}

\* The package files among files, with their contents.
PackageFilesOf(files) ==
    [name \in DOMAIN files \cap PackageFileNames |-> files[name]]

\* C23: no step of the restore window creates, modifies or deletes
\* migration_package.json or an install script of the loaded package
\* directory.
C23_PackageFilesKept ==
    [][\A dir \in PackageDirs :
          package_path = Some(dir) => PackageFilesOf(fs'[dir]) = PackageFilesOf(fs[dir])]_vars

\* The main loop runs the results update of a search.
UpdateStep ==
    /\ after_queue # <<>>
    /\ Head(after_queue).call = "_update_installer_results"
    /\ after_queue' = Tail(after_queue)

\* The report the results update reads: the content of manual_downloads.md
\* of the search, None when there is no such file.
ReportRead ==
    LET files == fs[Head(after_queue).manual_downloads_path] IN
    IF "manual_downloads.md" \in DOMAIN files
    THEN Some(files["manual_downloads.md"].content) ELSE None

\* content[i..j] is a scheme and at least one character, all of the class.
UrlAt(content, i, j, link) ==
    /\ content[i] \in Schemes
    /\ i < j
    /\ \A k \in (i + 1)..j :
          IF link THEN LinkChar(content[k]) ELSE RawChar(content[k])

\* The targets of the markdown links of a report: what is between "](" and
\* the next ")", a URL without whitespace, the link not inside the target of
\* an earlier one.
LinkTargets(content) ==
    UNION {{SubSeq(content, i, j) : j \in
              {e \in (i + 1)..(Len(content) - 1) :
                  /\ UrlAt(content, i, e, TRUE)
                  /\ content[e + 1] = ")"
                  /\ ~\E h \in 3..(i - 1) :
                        /\ content[h - 2] = "]" /\ content[h - 1] = "("
                        /\ UrlAt(content, h, e, TRUE)}} :
           i \in {b \in 3..Len(content) :
                    /\ content[b - 2] = "]" /\ content[b - 1] = "("
                    /\ content[b] \in Schemes}}

\* The bare URL tokens of a report: a scheme and the longest run of
\* characters that are not whitespace, ')', ']' or ',', the token not
\* inside an earlier one.
BareTokens(content) ==
    UNION {{SubSeq(content, i, j) : j \in
              {e \in (i + 1)..Len(content) :
                  /\ UrlAt(content, i, e, FALSE)
                  /\ (e = Len(content) \/ ~RawChar(content[e + 1]))
                  /\ ~\E h \in 1..(i - 1) : UrlAt(content, h, e, FALSE)}} :
           i \in {b \in 1..Len(content) : content[b] \in Schemes}}

\* C24: when the results update has parsed a report, the extracted URL list
\* holds each URL once and its URLs are the link targets and the bare URL
\* tokens of the report, without the placeholder tokens.
C24_ExtractedUrls ==
    [][(UpdateStep /\ ReportRead # None) =>
          /\ NoDuplicates(found_urls')
          /\ Range(found_urls') =
                (LinkTargets(ReportRead[1]) \cup BareTokens(ReportRead[1])) \ Placeholders]_vars

\* A report holds the same URL as a link target and as a bare URL (and a
\* placeholder), and was parsed.
C24_Witness ==
    /\ search_thread.pc = "done"
    /\ after_queue = <<>>
    /\ search_thread.report \in
          { Some(Link(UExe) \o << "\n" >> \o UExe \o << "\n" >>),
            Some(Link(UExe) \o << "\n" >> \o Link(<< "winget://", "install" >>) \o << "\n" >>) }
    /\ found_urls = << UExe >>

\* The URLs a report holds: its link targets and bare URL tokens, without
\* the placeholder tokens.
ExtractedUrls(content) ==
    (LinkTargets(content) \cup BareTokens(content)) \ Placeholders

\* The URL contains "google.com/search", in some letter case.
HoldsSearch(url) ==
    \E i \in 1..Len(url) : url[i] \in {"google.com/search", "GOOGLE.COM/Search"}

\* C25: a URL that contains "google.com/search", in any letter case, is in
\* no row of the candidate list and in no fetch of a download batch, and the
\* number of found URLs the results update reports counts it.
C25_SearchUrlsCountedNotListed ==
    [][/\ \A i \in 1..Len(download_selection_tree') :
             ~HoldsSearch(download_selection_tree'[i].url)
       /\ \A i \in 1..Len(fetched') : ~HoldsSearch(fetched'[i].url)
       /\ (UpdateStep /\ ReportRead # None) =>
             /\ installer_search_info'.found = Cardinality(ExtractedUrls(ReportRead[1]))
             /\ \A url \in ExtractedUrls(ReportRead[1]) :
                   HoldsSearch(url) => url \in Range(found_urls')]_vars

\* A report with search URLs in both letter cases and a direct URL was
\* parsed, and a download batch fetched from the candidate list.
C25_Witness ==
    /\ UGoogle \in Range(found_urls)
    /\ UGoogleUpper \in Range(found_urls)
    /\ installer_search_info = [found |-> 3, items |-> 0]
    /\ Len(download_selection_tree) = 1
    /\ download_thread.pc = "done"
    /\ fetched # <<>>

\* The results update of the last search has not run yet.
UpdatePending ==
    \E k \in 1..Len(after_queue) : after_queue[k].call = "_update_installer_results"

\* The last search found no resolver script, or its resolver process ended
\* without writing a report and the results were displayed.
ResolverFailed ==
    \/ search_thread.pc = "missing"
    \/ search_thread.pc = "done" /\ search_thread.report = None /\ ~UpdatePending

\* An error dialog is shown or the log holds an error entry.
ErrorReported ==
    \/ restore_messagebox = "showerror"
    \/ \E k \in 1..Len(log_text) :
          log_text[k] \in {Gui("ERROR: Resolver script not found"), Gui("Error: ")}

\* The candidate list is empty after a search whose resolver failed.
NoCandidatesAfterFailure == ResolverFailed => download_selection_tree = <<>>

\* C26: after a search whose resolver script is missing, or whose resolver
\* process ended without a report of this run, an error is reported and the
\* candidate list is empty.
C26_ResolverFailureReported ==
    ResolverFailed => (ErrorReported /\ download_selection_tree = <<>>)

\* The URLs of the report the resolver of the last search wrote, none when
\* it wrote no report.
ThisRunUrls ==
    IF search_thread.report = None THEN {} ELSE ExtractedUrls(search_thread.report[1])

\* The results update rebuilds the list: every row is unselected and its
\* URL is one of the file the update read.
ListRebuilt ==
    [][UpdateStep =>
          \A i \in 1..Len(download_selection_tree') :
             /\ download_selection_tree'[i].text = Unchecked
             /\ ReportRead # None
             /\ download_selection_tree'[i].url \in ExtractedUrls(ReportRead[1])]_vars

\* C27: after the results update of a resolver run the candidate list holds
\* only candidates of the report of that run, all unselected.
C27_ListReplaced ==
    [][UpdateStep =>
          \A i \in 1..Len(download_selection_tree') :
             /\ download_selection_tree'[i].text = Unchecked
             /\ download_selection_tree'[i].url \in ThisRunUrls]_vars

\* A download batch was started.
BatchStarted == download_thread.pc \in {"running", "done"}

\* The URL starts with "winget://".
StartsWinget(url) == Len(url) > 0 /\ url[1] = "winget://"

\* The URLs the loop of the batch has gone past that are to be fetched, in
\* the order of the list.
FetchablePassed ==
    SelectSeq(SubSeq(download_thread.urls, 1, download_thread.i - 1),
              LAMBDA url : ~StartsWinget(url))

\* The fetches of the batch, in the order they were made.
Attempts == SubSeq(fetched, download_thread.start + 1, Len(fetched))

\* The outcome entries of the log, in the order they were logged.
OutcomeEntries ==
    SelectSeq(log_text, LAMBDA e : e.text \in {"Downloaded", "Failed to download"})

\* C28: a download batch fetches the selected fetchable candidates once
\* each, in the order of the list, it ends only when it has gone past every
\* selected candidate whatever the outcomes were, and the log holds one
\* outcome entry per fetch, success or failure.
C28_EveryCandidateAttempted ==
    BatchStarted =>
        /\ Len(Attempts) = Len(FetchablePassed)
        /\ \A k \in 1..Len(Attempts) : Attempts[k].url = FetchablePassed[k]
        /\ download_thread.pc = "done" => download_thread.i = Len(download_thread.urls) + 1
        /\ Len(OutcomeEntries) = Len(fetched)
        /\ \A k \in 1..Len(fetched) :
              OutcomeEntries[k] =
                 Entry("gui", IF fetched[k].ok THEN "Downloaded" ELSE "Failed to download",
                       fetched[k].url)

\* A batch of two fetchable candidates ended; the fetch of the first failed
\* and the second was fetched.
C28_Witness ==
    /\ download_thread.pc = "done"
    /\ Len(download_thread.urls) = 2
    /\ Len(Attempts) = 2
    /\ ~Attempts[1].ok
    /\ Attempts[2].ok

\* C29: a selected candidate whose URL starts with "winget://" is never
\* fetched; when the loop has gone past it the log holds its informational
\* entry, and the batch has fetched the candidates around it.
C29_WingetCandidateSkipped ==
    /\ \A k \in 1..Len(fetched) : ~StartsWinget(fetched[k].url)
    /\ BatchStarted =>
          \A j \in 1..(download_thread.i - 1) :
             IF StartsWinget(download_thread.urls[j])
             THEN \E k \in 1..Len(log_text) :
                     log_text[k] = Entry("gui", "Installer found via Winget",
                                         download_thread.urls[j])
             ELSE \E k \in 1..Len(Attempts) : Attempts[k].url = download_thread.urls[j]

\* A batch whose first candidate is a Winget one ended, the candidate after
\* it was fetched.
C29_Witness ==
    /\ download_thread.pc = "done"
    /\ download_thread.urls = << UWinget, UExe >>
    /\ Len(Attempts) = 1
    /\ Attempts[1].url = UExe

\* C30: the config keys an export writes into the package are the config
\* keys the restore window reads from a package.
C30_ConfigKeysAgree ==
    ExportDone => DOMAIN ExportedPackage.configs = DOMAIN config_vars

\* The loaded scan holds license data.
LicensesLoaded == scan_data # None /\ "licenses" \in DOMAIN scan_data[1]

\* The package written holds the sub-bundle exactly when toggle is true and
\* the scan holds license data.
BundleFollows(bundle, toggle) ==
    (bundle \in DOMAIN ExportedPackage.licenses) <=> (toggle /\ LicensesLoaded)

\* C31: the package an export wrote holds the Windows key, the Office keys
\* or the WiFi profiles only if the toggle of that sub-bundle is true, and
\* whether it holds one is decided by that toggle alone, not by the other
\* two or by the config options.
C31_BundleFollowsOwnToggle ==
    ExportDone =>
        /\ BundleFollows("windows_key", include_windows_key)
        /\ BundleFollows("office_keys", include_office_keys)
        /\ BundleFollows("wifi_profiles", include_wifi)

\* An export with the toggles of the three sub-bundles not all the same and
\* a config option off.
C31_Witness ==
    /\ ExportDone
    /\ LicensesLoaded
    /\ include_windows_key /\ ~include_wifi
    /\ ~config_options["env_vars"]
    /\ "windows_key" \in DOMAIN ExportedPackage.licenses
    /\ "wifi_profiles" \notin DOMAIN ExportedPackage.licenses

\* The auxiliary files of a scan directory.
AuxFiles == files_to_copy \cup {"AppConfigs"}

\* The auxiliary files among files, with their contents.
AuxFilesOf(files) == [f \in (DOMAIN files) \cap AuxFiles |-> files[f]]

\* An export wrote its package.
ExportSucceeds == lastOp'.op = "_export_selection" /\ exports' = exports + 1

ConfigLaunches == Cardinality({i \in 1..Len(process) : process[i].phase = "config"})

\* The log view holds the completion line of the config restore.
CompleteLogged ==
    \E k \in 1..Len(log_text) : log_text[k] = Gui("Configuration restore complete!")

\* The run launched the config-restore process once and logged its end.
RunCompleted == ConfigLaunches = 1 /\ CompleteLogged

ScriptNotWritten == restore_pc = "failed"

ShownChecked(category) ==
    LET tree == TreeOf(category)
        rows == {item \in Displayed(category) : tree.items[item].text = Checked}
    IN [keys |-> {<< tree.items[item].values.name, tree.items[item].values.version >> :
                     item \in rows},
        count |-> Cardinality(rows)]

\* Name and version of the entries of a list of the package.
Packaged(list, name) ==
    [keys |-> {<< list[i][name], list[i].Version >> : i \in 1..Len(list)},
     count |-> Len(list)]

\* C34: when an export succeeded while no search filter hides a row, the
\* software entries of the package are the entries displayed with a check
\* mark in the software list, and likewise for the store apps.
C34_PackageIsWhatIsShown ==
    (ExportDone /\ software_search = <<>> /\ store_apps_search = <<>>) =>
        /\ Packaged(ExportedPackage.software, "SoftwareName") = ShownChecked("software")
        /\ Packaged(ExportedPackage.store_apps, "Name") = ShownChecked("store_apps")

\* C35: the processes of one Full Restore run, Winget, Chocolatey and
\* config restore, all work on the same package directory.
C35_OneDirectoryPerRun ==
    \A i, j \in 1..Len(process) : process[i].dir = process[j].dir

\* The backends whose standalone install script is running.
RunningScripts ==
    {backend \in Backends : install[backend].pc = "running" /\ ~ScriptExited(backend)}

\* C36: at most one process started by the restore window, an install
\* script of a button or a process of a Full Restore run, is running.
C36_OneProcessAtATime == Cardinality(RunningScripts) + Cardinality(Alive) <= 1

\* No output line of the phases is in the log view after the marker.
NoOutputAfter(marker, phases) ==
    \A j, k \in 1..Len(log_text) :
        (j < k /\ log_text[j] = Gui(marker)) => log_text[k].from \notin phases

\* C37: in the log of a Full Restore run every output line of the Winget
\* phase precedes "Installing via Chocolatey...", and every output line of
\* the two install phases precedes "PHASE 2: Restoring Configuration".
C37_OutputBeforeMarkers ==
    /\ NoOutputAfter("\nInstalling via Chocolatey...", {"Winget"})
    /\ NoOutputAfter("PHASE 2: Restoring Configuration", Backends)

\* The thread download() ends its loop in this step.
BatchFinishes == download_thread.pc = "running" /\ download_thread'.pc = "done"

\* The number of candidates of the batch whose fetch succeeded.
Succeeded ==
    Cardinality({k \in (download_thread.start + 1)..Len(fetched) : fetched[k].ok})

\* C38: when a download batch finishes, the number of files the "Complete"
\* dialog reports as downloaded is the number of candidates of the batch
\* whose fetch succeeded.
C38_ReportedIsSucceeded ==
    [][BatchFinishes => after_queue'[Len(after_queue')].downloaded = Succeeded]_vars

\* The fetches of the batch that wrote their destination file.
Written ==
    {k \in (download_thread.start + 1)..Len(fetched) : fetched[k].ok}

\* C39: within one download batch two different selected URLs are never
\* written to the same destination file path.
C39_DistinctDestinations ==
    \A j, k \in Written :
        fetched[j].url # fetched[k].url
            => FileName(fetched[j].url) # FileName(fetched[k].url)

====
